---- MODULE Spec2Model ----
(***************************************************************************)
(* A model of the chunked translation pipeline of Trans_Clone:             *)
(*   - the response parser of TranslationEngine,                           *)
(*   - the LangGraph retry workflow of TranslationEngine,                  *)
(*   - the synchronous translate_chunk / translate_chunks,                 *)
(*   - the chunk builders and the worker of translate_current_file.        *)
(*                                                                         *)
(* Texts are sequences of symbols.  A symbol stands for one character      *)
(* ("{", "q" for the double quote, "bs" for the backslash, "bt" for the   *)
(* backtick, " " for any whitespace, ...) or for one whole word            *)
(* ("translation", "line", "text", "json"); slices of the source that cut  *)
(* such a word off are taken in symbols.                                   *)
(***************************************************************************)
EXTENDS Integers, Sequences, FiniteSets, TLC

\* ------------------------------------------------------------------------
\* Text helpers (str.strip, str.startswith, str.endswith, slicing)
\* ------------------------------------------------------------------------

Q == "q"
BS == "bs"
WS == " "

Max(a, b) == IF a >= b THEN a ELSE b

Min(a, b) == IF a <= b THEN a ELSE b

Drop(s, n) == SubSeq(s, n + 1, Len(s))

StartsWith(s, p) == Len(s) >= Len(p) /\ SubSeq(s, 1, Len(p)) = p

EndsWith(s, p) == Len(s) >= Len(p) /\ SubSeq(s, Len(s) - Len(p) + 1, Len(s)) = p

\* part in text: text holds part as a run of consecutive symbols
Contains(text, part) ==
    \E i \in 1..(Len(text) - Len(part) + 1) : SubSeq(text, i, i + Len(part) - 1) = part

\* index of the first / last symbol that is not whitespace (Len+1 / 0 if none)
FirstNonSpace(s) ==
    IF \A i \in 1..Len(s) : s[i] = WS THEN Len(s) + 1
    ELSE CHOOSE i \in 1..Len(s) : s[i] # WS /\ \A j \in 1..(i - 1) : s[j] = WS

LastNonSpace(s) ==
    IF \A i \in 1..Len(s) : s[i] = WS THEN 0
    ELSE CHOOSE i \in 1..Len(s) : s[i] # WS /\ \A j \in (i + 1)..Len(s) : s[j] = WS

\* str.strip()
Strip(s) == SubSeq(s, FirstNonSpace(s), LastNonSpace(s))

\* ------------------------------------------------------------------------
\* json.loads, on symbol sequences
\* ------------------------------------------------------------------------

Digits == {"1", "2", "3"}

\* the symbols a backslash may escape inside a JSON string: the quote, the
\* backslash, and the words that begin with t (\t)
Escapable == {Q, BS, "translation", "text"}

\* a JSON value: t is "obj", "arr", "str" or "num"; s is the literal body of a
\* string or number; v holds the elements of an array or the <<key, value>>
\* pairs of an object
JVal(t, s, v) == [t |-> t, s |-> s, v |-> v]

NoVal == JVal("none", <<>>, <<>>)

ParseFail == [ok |-> FALSE, val |-> NoVal, p |-> 0]

ParseOk(val, p) == [ok |-> TRUE, val |-> val, p |-> p]

\* the first position >= i that holds no whitespace
RECURSIVE SkipWs(_, _)
SkipWs(s, i) == IF i <= Len(s) /\ s[i] = WS THEN SkipWs(s, i + 1) ELSE i

\* position of the quote closing the string whose body starts at j; 0 if the
\* string is unterminated or holds an invalid escape
RECURSIVE StrEnd(_, _)
StrEnd(s, j) ==
    IF j > Len(s) THEN 0
    ELSE IF s[j] = Q THEN j
    ELSE IF s[j] = BS
         THEN IF j + 1 <= Len(s) /\ s[j + 1] \in Escapable
              THEN StrEnd(s, j + 2) ELSE 0
    ELSE StrEnd(s, j + 1)

\* the position after the run of digits that starts at i
RECURSIVE DigitsEnd(_, _)
DigitsEnd(s, i) == IF i <= Len(s) /\ s[i] \in Digits THEN DigitsEnd(s, i + 1) ELSE i

\* int [frac]: the digits end at e; a "." and digits may follow
FracEnd(s, e) ==
    IF e + 1 <= Len(s) /\ s[e] = "." /\ s[e + 1] \in Digits
    THEN DigitsEnd(s, e + 1) ELSE e

NumEnd(s, i) == FracEnd(s, DigitsEnd(s, i))

\* the string that opens at i and closes at e, the number from i to e - 1
StringAt(s, i, e) ==
    IF e = 0 THEN ParseFail
    ELSE ParseOk(JVal("str", SubSeq(s, i + 1, e - 1), <<>>), e + 1)

ParseString(s, i) == StringAt(s, i, StrEnd(s, i + 1))

NumberAt(s, i, e) == ParseOk(JVal("num", SubSeq(s, i, e - 1), <<>>), e)

RECURSIVE ParseValue(_, _)
RECURSIVE ParseMembers(_, _, _)
RECURSIVE MemberAfterKey(_, _, _)
RECURSIVE MemberAfterColon(_, _, _, _)
RECURSIVE MemberAfterValue(_, _, _, _)
RECURSIVE MemberNext(_, _, _)
RECURSIVE ParseElements(_, _, _)
RECURSIVE ElementAfterValue(_, _, _)
RECURSIVE ElementNext(_, _, _)
RECURSIVE ObjectAt(_, _)
RECURSIVE ArrayAt(_, _)

\* the members of an object, from the key at j on: key, ":", value, then "," or "}"
ParseMembers(s, j, acc) ==
    IF j > Len(s) \/ s[j] # Q THEN ParseFail
    ELSE MemberAfterKey(s, acc, ParseString(s, j))

MemberAfterKey(s, acc, key) ==
    IF ~key.ok THEN ParseFail
    ELSE MemberAfterColon(s, acc, key.val.s, SkipWs(s, key.p))

MemberAfterColon(s, acc, k, c) ==
    IF c > Len(s) \/ s[c] # ":" THEN ParseFail
    ELSE MemberAfterValue(s, acc, k, ParseValue(s, SkipWs(s, c + 1)))

MemberAfterValue(s, acc, k, val) ==
    IF ~val.ok THEN ParseFail
    ELSE MemberNext(s, Append(acc, <<k, val.val>>), SkipWs(s, val.p))

MemberNext(s, acc, m) ==
    IF m > Len(s) THEN ParseFail
    ELSE IF s[m] = "}" THEN ParseOk(JVal("obj", <<>>, acc), m + 1)
    ELSE IF s[m] = "," THEN ParseMembers(s, SkipWs(s, m + 1), acc)
    ELSE ParseFail

\* the elements of an array, from the value at j on: value, then "," or "]"
ParseElements(s, j, acc) == ElementAfterValue(s, acc, ParseValue(s, j))

ElementAfterValue(s, acc, val) ==
    IF ~val.ok THEN ParseFail
    ELSE ElementNext(s, Append(acc, val.val), SkipWs(s, val.p))

ElementNext(s, acc, m) ==
    IF m > Len(s) THEN ParseFail
    ELSE IF s[m] = "]" THEN ParseOk(JVal("arr", <<>>, acc), m + 1)
    ELSE IF s[m] = "," THEN ParseElements(s, SkipWs(s, m + 1), acc)
    ELSE ParseFail

\* after "{" and whitespace, at j; after "[" and whitespace, at j
ObjectAt(s, j) ==
    IF j <= Len(s) /\ s[j] = "}" THEN ParseOk(JVal("obj", <<>>, <<>>), j + 1)
    ELSE ParseMembers(s, j, <<>>)

ArrayAt(s, j) ==
    IF j <= Len(s) /\ s[j] = "]" THEN ParseOk(JVal("arr", <<>>, <<>>), j + 1)
    ELSE ParseElements(s, j, <<>>)

ParseValue(s, i) ==
    IF i > Len(s) THEN ParseFail
    ELSE IF s[i] = "{" THEN ObjectAt(s, SkipWs(s, i + 1))
    ELSE IF s[i] = "[" THEN ArrayAt(s, SkipWs(s, i + 1))
    ELSE IF s[i] = Q THEN ParseString(s, i)
    ELSE IF s[i] \in Digits THEN NumberAt(s, i, NumEnd(s, i))
    ELSE ParseFail

\* json.loads(s): one value, whitespace around it, nothing else
WholeText(s, r) == IF r.ok /\ SkipWs(s, r.p) > Len(s) THEN r ELSE ParseFail

JsonLoads(s) == WholeText(s, ParseValue(s, SkipWs(s, 1)))

\* key in dict, and dict[key] (the last of duplicate keys wins)
HasKey(o, k) == o.t = "obj" /\ \E i \in 1..Len(o.v) : o.v[i][1] = k

GetKey(o, k) ==
    o.v[CHOOSE n \in 1..Len(o.v) :
            o.v[n][1] = k /\ \A m \in (n + 1)..Len(o.v) : o.v[m][1] # k][2]

\* ------------------------------------------------------------------------
\* TranslationEngine._parse_translation_response
\* ------------------------------------------------------------------------

BT == "bt"

Fence == <<BT, BT, BT>>

FenceJson == <<BT, BT, BT, "json">>

\* drop an opening fence (with or without json), then a closing fence
DropOpeningFence(c) ==
    IF StartsWith(c, FenceJson) THEN Drop(c, Len(FenceJson))
    ELSE IF StartsWith(c, Fence) THEN Drop(c, Len(Fence))
    ELSE c

DropClosingFence(c) ==
    IF EndsWith(c, Fence) THEN SubSeq(c, 1, Len(c) - Len(Fence)) ELSE c

CleanFences(raw) == DropClosingFence(DropOpeningFence(Strip(raw)))

\* the number of dots s ends with
RECURSIVE TrailingDots(_)
TrailingDots(s) ==
    IF Len(s) > 0 /\ s[Len(s)] = "."
    THEN 1 + TrailingDots(SubSeq(s, 1, Len(s) - 1)) ELSE 0

\* re.sub(r"\.\.\.+\s*$", "", s): t is s without its trailing whitespace and
\* k the number of dots t ends with
DropDots(s, t, k) == IF k >= 3 THEN SubSeq(t, 1, Len(t) - k) ELSE s

DropDotsOf(s, t) == DropDots(s, t, TrailingDots(t))

\* the sub, then strip
StripEllipsis(s) == Strip(DropDotsOf(s, SubSeq(s, 1, LastNonSpace(s))))

\* brace_count / bracket_count after the character at position i: the number
\* of open symbols minus the number of close symbols among the first i
CountAt(s, i, open, close) ==
    Cardinality({k \in 1..i : s[k] = open}) - Cardinality({k \in 1..i : s[k] = close})

\* the positions (1-based, never the first) after which both counters are zero
BalancedAt(s) ==
    {i \in 2..Len(s) : CountAt(s, i, "{", "}") = 0 /\ CountAt(s, i, "[", "]") = 0}

\* the loop over the characters: the last of these positions; 0 if there is none
LastOf(ps) == IF ps = {} THEN 0 ELSE CHOOSE i \in ps : \A j \in ps : j <= i

ScanBalance(s) == LastOf(BalancedAt(s))

TruncateAt(s, last_valid_pos) ==
    IF last_valid_pos > 1 THEN SubSeq(s, 1, last_valid_pos) ELSE s

\* "Try to fix incomplete JSON by finding the last complete object"
RepairTruncated(s) ==
    IF ~EndsWith(s, <<"}">>) /\ ~EndsWith(s, <<"]">>)
    THEN TruncateAt(s, ScanBalance(s))
    ELSE s

NoBrace(s, a, b) == \A i \in a..b : s[i] \notin {"{", "}"}

\* the first position >= i that holds one of the symbols of set; Len+1 if none
FirstOf(s, i, set) ==
    IF \E j \in i..Len(s) : s[j] \in set
    THEN CHOOSE j \in i..Len(s) : s[j] \in set /\ \A m \in i..(j - 1) : s[m] \notin set
    ELSE IF i > Len(s) THEN i ELSE Len(s) + 1

\* re.search(r'\{[^{}]*"translation"[^{}]*\[[^\]]*\][^{}]*\}', s, re.DOTALL):
\* <<p, t, b>> are the positions of the opening brace, of the quote that opens
\* "translation" and of the "["; the "]" is the first one after b and the
\* closing brace the first brace after that "]"
RegexClose(s, b) == FirstOf(s, b + 1, {"]"})

RegexEnd(s, b) == FirstOf(s, RegexClose(s, b) + 1, {"{", "}"})

RegexCandidates(s) ==
    {c \in {i \in 1..Len(s) : s[i] = "{"}
           \X {i \in 1..(Len(s) - 2) : SubSeq(s, i, i + 2) = <<Q, "translation", Q>>}
           \X {i \in 1..Len(s) : s[i] = "["} :
        /\ c[1] < c[2] /\ c[2] + 2 < c[3]
        /\ NoBrace(s, c[1] + 1, c[3] - 1)
        /\ RegexClose(s, c[3]) <= Len(s)
        /\ RegexEnd(s, c[3]) <= Len(s)
        /\ s[RegexEnd(s, c[3])] = "}"}

\* the match the backtracking engine returns: leftmost start, then the longest
\* first [^{}]*, then the longest second [^{}]*
RegexFirst(cs) ==
    CHOOSE x \in cs : \A y \in cs :
        \/ x[1] < y[1]
        \/ x[1] = y[1] /\ x[2] > y[2]
        \/ x[1] = y[1] /\ x[2] = y[2] /\ x[3] >= y[3]

RegexMatch(s, c) == [found |-> TRUE, text |-> SubSeq(s, c[1], RegexEnd(s, c[3]))]

RegexPick(s, cs) ==
    IF cs = {} THEN [found |-> FALSE, text |-> <<>>] ELSE RegexMatch(s, RegexFirst(cs))

RegexSearch(s) == RegexPick(s, RegexCandidates(s))

QuoteDelims == {",", ":", "}", "]"}

\* the position after the run of characters that are none of , : } ] from i on
RunEnd(s, i) == FirstOf(s, i, QuoteDelims)

\* the first / the last quote among the positions a..b; 0 if there is none
FirstQuote(s, a, b) ==
    IF \A j \in a..b : s[j] # Q THEN 0
    ELSE CHOOSE j \in a..b : s[j] = Q /\ \A m \in a..(j - 1) : s[m] # Q

LastQuote(s, a, b) ==
    IF \A j \in a..b : s[j] # Q THEN 0
    ELSE CHOOSE j \in a..b : s[j] = Q /\ \A m \in (j + 1)..b : s[m] # Q

\* re.sub(r'(?<!\\)"([^"]*)"([^,:}\]]*)"', r'"\1\"\2"', s), scanning from i:
\* a match opens at a quote at i that no backslash precedes, group 1 ends at
\* the next quote j, group 2 at the last quote k of the run of characters
\* that are none of , : } ]
RECURSIVE FixQuotes(_, _)
RECURSIVE FixQuotesGroup1(_, _, _)
RECURSIVE FixQuotesGroup2(_, _, _, _)
FixQuotes(s, i) ==
    IF i > Len(s) THEN <<>>
    ELSE IF s[i] = Q /\ (i = 1 \/ s[i - 1] # BS)
         THEN FixQuotesGroup1(s, i, FirstQuote(s, i + 1, Len(s)))
    ELSE <<s[i]>> \o FixQuotes(s, i + 1)

FixQuotesGroup1(s, i, j) ==
    IF j = 0 THEN <<s[i]>> \o FixQuotes(s, i + 1)
    ELSE FixQuotesGroup2(s, i, j, LastQuote(s, j + 1, RunEnd(s, j + 1) - 1))

FixQuotesGroup2(s, i, j, k) ==
    IF k = 0 THEN <<s[i]>> \o FixQuotes(s, i + 1)
    ELSE <<Q>> \o SubSeq(s, i + 1, j - 1) \o <<BS, Q>>
             \o SubSeq(s, j + 1, k - 1) \o <<Q>> \o FixQuotes(s, k + 1)

\* the text json.loads is given first
CleanedOutput(raw) == RepairTruncated(StripEllipsis(CleanFences(raw)))

\* "Parse JSON": json.loads, else the regex match, else the match with its
\* quotes fixed; ok is FALSE when an exception leaves the block
LoadSecond(json_match, second) ==
    IF second.ok THEN second ELSE JsonLoads(FixQuotes(json_match.text, 1))

LoadMatch(json_match) ==
    IF ~json_match.found THEN ParseFail
    ELSE LoadSecond(json_match, JsonLoads(json_match.text))

LoadFirst(cleaned, first) ==
    IF first.ok THEN first ELSE LoadMatch(RegexSearch(cleaned))

LoadResponseData(cleaned) == LoadFirst(cleaned, JsonLoads(cleaned))

IsTranslationItem(item) ==
    item.t = "obj" /\ HasKey(item, <<"line">>) /\ HasKey(item, <<"text">>)

\* the kept items in the opposite order
FilterItemsReversed(translations) ==
    [i \in 1..Len(SelectSeq(translations, IsTranslationItem)) |->
        SelectSeq(translations, IsTranslationItem)[
            Len(SelectSeq(translations, IsTranslationItem)) + 1 - i]]

\* "Ensure all items have required fields"
FilterItems(translations) == SelectSeq(translations, IsTranslationItem)

\* "Extract translation array"
ExtractTranslations(response_data) ==
    IF HasKey(response_data, <<"translation">>)
    THEN GetKey(response_data, <<"translation">>)
    ELSE IF response_data.t = "arr" THEN response_data ELSE NoVal

\* "Validate format", then the filter of the items
ResultOf(translations) ==
    IF translations.t # "arr" THEN [raised |-> TRUE, result |-> <<>>]
    ELSE [raised |-> FALSE, result |-> FilterItems(translations.v)]

BodyOf(data) ==
    IF ~data.ok THEN [raised |-> TRUE, result |-> <<>>]
    ELSE ResultOf(ExtractTranslations(data.val))

\* the body of the try block: raised is TRUE when it ends in an exception
ParseBody(raw) == BodyOf(LoadResponseData(CleanedOutput(raw)))

\* the call as its caller sees it: "except Exception: return []"
ReturnOf(r) == IF r.raised THEN [raised |-> FALSE, result |-> <<>>] ELSE r

\* the call with the outer except clause left out
ParseCallNoExcept(raw) == ParseBody(raw)

ParseCall(raw) == ReturnOf(ParseBody(raw))

ResultField(r) == r.result

_parse_translation_response(raw) == ResultField(ParseCall(raw))

\* ------------------------------------------------------------------------
\* Texts the model of the provider may answer with
\* ------------------------------------------------------------------------

DigitSym == <<"1", "2", "3">>

StrLit(body) == <<Q>> \o body \o <<Q>>

\* {"line": n, "text": <textval>}
Item(n, textval) ==
    <<"{", Q, "line", Q, ":", n, ",", Q, "text", Q, ":">> \o textval \o <<"}">>

RECURSIVE JoinComma(_)
JoinComma(parts) ==
    IF Len(parts) = 0 THEN <<>>
    ELSE IF Len(parts) = 1 THEN parts[1]
    ELSE parts[1] \o <<",", WS>> \o JoinComma(Tail(parts))

\* {"translation": [ ... ]}
Resp(items) ==
    <<"{", Q, "translation", Q, ":", WS, "[">> \o JoinComma(items) \o <<"]", "}">>

\* one well-formed item per line number of lines
ItemsFor(lines) == [i \in 1..Len(lines) |-> Item(DigitSym[lines[i]], StrLit(<<"a">>))]

Garbage == <<"a", WS, "x">>

\* ------------------------------------------------------------------------
\* TranslationChunk, and the entries of its original_texts
\* ------------------------------------------------------------------------

\* an entry of original_texts: a plain string (translate_current_file), or a
\* dict with "line" and "text" (prepare_optimized_translation_chunks)
StrEntry(text) == [dict |-> FALSE, line |-> 0, text |-> text]

DictEntry(line, text) == [dict |-> TRUE, line |-> line, text |-> text]

\* "text and text.strip()"
NonBlank(text) == Strip(text) # <<>>

NewChunk(chunk_id, original_texts, start_row, end_row) ==
    [chunk_id |-> chunk_id, original_texts |-> original_texts,
     translated_texts |-> <<>>, start_row |-> start_row, end_row |-> end_row,
     status |-> "pending", error_message |-> ""]

\* the number of entries of original_texts that hold a non-blank text
NonBlankCount(original_texts) ==
    Cardinality({i \in 1..Len(original_texts) : NonBlank(original_texts[i].text)})

\* what the provider does with one request: it raises, or it answers content
Raise == [raises |-> TRUE, content |-> <<>>]

Answer(content) == [raises |-> FALSE, content |-> content]

\* ------------------------------------------------------------------------
\* TranslationEngine.translate_chunk (synchronous)
\* ------------------------------------------------------------------------

\* the texts of the parsed items: [item["text"] for item in parsed_response]
ItemTexts(parsed) == [i \in 1..Len(parsed) |-> GetKey(parsed[i], <<"text">>)]

\* the try block: the chunk after it, and whether it ended in an exception
translate_chunk_try(chunk, has_model, outcome) ==
    IF ~has_model
    THEN [chunk |-> [chunk EXCEPT !.status = "failed"], raised |-> FALSE]
    ELSE IF outcome.raises THEN [chunk |-> chunk, raised |-> TRUE]
    ELSE LET parsed_response == _parse_translation_response(outcome.content)
         IN IF parsed_response # <<>>
            THEN [chunk |-> [chunk EXCEPT !.translated_texts = ItemTexts(parsed_response),
                                          !.status = "completed"],
                  raised |-> FALSE]
            ELSE [chunk |-> [chunk EXCEPT !.status = "failed"], raised |-> FALSE]

\* the call without its "except Exception": the exception reaches the caller
translate_chunk_uncaught(chunk, has_model, outcome) ==
    translate_chunk_try(chunk, has_model, outcome)

\* the call as its caller sees it: "except Exception: chunk.status = 'failed'"
translate_chunk_sync(chunk, has_model, outcome) ==
    LET r == translate_chunk_try(chunk, has_model, outcome)
    IN IF r.raised
       THEN [chunk |-> [r.chunk EXCEPT !.status = "failed"], raised |-> FALSE]
       ELSE r

\* ------------------------------------------------------------------------
\* The graph workflow of TranslationEngine (translate_chunk_async)
\* ------------------------------------------------------------------------

\* the line numbers _prepare_request asks for: i + 1 for every non-blank text
RequestedLines(original_texts) ==
    {i \in 1..Len(original_texts) : NonBlank(original_texts[i].text)}

NumVal(n) == JVal("num", <<DigitSym[n]>>, <<>>)

\* _prepare_request: text.strip() raises on a dict entry
PrepareError(original_texts) ==
    IF \E i \in 1..Len(original_texts) : original_texts[i].dict
    THEN "Error preparing request" ELSE ""

\* evaluating {item["line"] for item in state.result if "line" in item} raises
\* on a number, on a string or list that holds "line", and on an unhashable
\* line value
ResultLinesRaise(result) ==
    \E i \in 1..Len(result) :
        \/ result[i].t = "num"
        \/ result[i].t = "str" /\ \E k \in 1..Len(result[i].s) : result[i].s[k] = "line"
        \/ result[i].t = "arr"
              /\ \E k \in 1..Len(result[i].v) : result[i].v[k] = JVal("str", <<"line">>, <<>>)
        \/ HasKey(result[i], <<"line">>)
              /\ GetKey(result[i], <<"line">>).t \in {"arr", "obj"}

ResultLines(result) ==
    {GetKey(result[i], <<"line">>) :
        i \in {k \in 1..Len(result) : HasKey(result[k], <<"line">>)}}

ExpectedLines(original_texts) ==
    IF original_texts[1].dict
    THEN {NumVal(original_texts[i].line) : i \in 1..Len(original_texts)}
    ELSE {NumVal(i) : i \in 1..Len(original_texts)}

\* _validate_result: the error it leaves in the state ("" if none)
ValidationError(result, original_texts) ==
    IF result = <<>> THEN "No translation result"
    ELSE IF result[1].t = "obj"
         THEN IF ResultLinesRaise(result) THEN "Validation error"
              ELSE IF ~(ExpectedLines(original_texts) \subseteq ResultLines(result))
                   THEN "Missing translation for lines"
              ELSE ""
    ELSE IF Len(result) # Len(original_texts) THEN "Translation count mismatch"
    ELSE ""

\* _should_validate, _should_retry, _should_continue_retry
should_validate(error) == IF error = "" THEN "validate_result" ELSE "retry_translation"

should_retry(error) == IF error # "" THEN "retry_translation" ELSE "finalize_result"

should_continue_retry(count, limit) ==
    IF count < limit THEN "translate_chunk" ELSE "finalize_result"

\* the chunk _finalize_result leaves
FinalizedChunk(chunk, error, result) ==
    IF error # ""
    THEN [chunk EXCEPT !.status = "failed", !.error_message = error,
                       !.translated_texts = <<>>]
    ELSE [chunk EXCEPT !.status = "completed", !.translated_texts = result,
                       !.error_message = ""]

\* _retry_translation with the error left as it was
retry_keeps_error(count, error) == [retry_count |-> count + 1, error |-> error]

\* _retry_translation: the retry count and the error it leaves
retry_translation(count, error) == [retry_count |-> count + 1, error |-> ""]

\* ------------------------------------------------------------------------
\* Bounds
\* ------------------------------------------------------------------------

\* the longest original_texts of a chunk
MaxTexts == 2

\* the largest request.max_retries
MaxRetries == 2

\* the number of translate_chunk / translate_chunk_async calls on one chunk
MaxCalls == 2

\* the longest text handed to _parse_translation_response symbol by symbol
MaxRawLen == 3

\* the longest list handed to translate_chunks
MaxChunks == 3

\* the rows of the table, and the largest chunk size
MaxRows == 3

MaxChunkSize == 2

\* the most rows of a context file, the largest context chunk_size and the
\* largest max_context_chunks / max_chunks
MaxContextRows == 2

MaxContextChunkSize == 2

MaxContextChunks == 1

\* the most rows of a short DataFrame given to update_history_for_file, and the
\* length of the chat history up to which single messages are added
MaxHistoryRows == 2

MaxMessages == 2

MaxUndoRows == 2

MaxUndoDepth == 2

MaxCapWalk == 3

MaxAppStates == 3

\* ------------------------------------------------------------------------
\* State
\* ------------------------------------------------------------------------

VARIABLES
    \* _parse_translation_response, called on its own
    raw_output,         \* the text to parse
    parse_out,          \* what the call gave: [raised, result]
    parse_pc,           \* "ready", "done" ("off" outside ParseSpec)
    \* TranslationEngine and one chunk
    node,               \* the graph node about to run; "idle" before a call, "END" after
    state_error,        \* TranslationState.error
    state_result,       \* TranslationState.result
    retry_count,        \* TranslationState.retry_count
    chunk,              \* the TranslationChunk
    max_retries,        \* request.max_retries
    has_model,          \* self.models holds a model for the request
    translation_count,  \* self.translation_count
    engine_calls,       \* calls made on the chunk so far
    invocations,        \* model.invoke calls of the current graph run
    last_attempt,       \* how the last attempt of the run ended: "none", "ok", "error"
    last_lines,         \* the "line" values of the items the last answer parsed to
    \* TranslationEngine.translate_chunks
    chunks,             \* the list it is handed
    results,            \* the list it builds: the chunk_id of every appended chunk
    batch_i,            \* the position of the loop in chunks (1-based)
    batch_pc,           \* "idle", "loop", "done", "raised" ("off" outside BatchSpec)
    call_log,           \* the positions translate_chunk was called on, in call order
    sleeps,             \* time.sleep calls made
    sleep_time,         \* request.sleep_time of translate_chunks
    batch_log,          \* translate_chunk calls and sleeps of translate_chunks, in order
    \* the table, the chunk builders and the worker of translate_current_file
    table_source,       \* the cells of the source column
    table_target,       \* the cells of the target column
    undo_stack,         \* EnhancedPandasModel._undo_stack: UndoRedoState records
    redo_stack,         \* EnhancedPandasModel._redo_stack
    modified_cells,     \* the rows of the target column in _modified_cells
    chunk_size,         \* the chunk size asked for
    json_chunks,        \* what csv_to_json_chunks returned
    opt_chunks,         \* what prepare_optimized_translation_chunks returned
    w_chunks,           \* the chunks translate_current_file built
    row_mapping,        \* its row_mapping: position in texts_to_translate -> row
    built,              \* the builders that have run
    w_i,                \* the position of the worker's loop in w_chunks (1-based)
    w_pc,               \* "idle", "loop", "done", "aborted" ("off" outside WorkerSpec)
    w_calls,            \* the positions the worker called translate_chunk on
    chat_history,       \* ChatHistory.messages: [role, content]
    history_file,       \* HistoryManager.history_file ("" when not set)
    history_disk,       \* the history file: [exists, messages]
    \* ContextManager
    context_config,     \* ContextManager.context_config
    loaded_files,       \* ContextManager.loaded_files: file_path -> DataFrame
    context_call,       \* the arguments of the last get_context_for_chunk ("none")
    context_result,     \* what that call returned
    \* EnhancedPandasModel followed on its own
    selected_indexes,   \* EnhancedPandasModel._selected_indexes: rows of the column
    action_contents,    \* history variable: for every state of the undo and the
                        \* redo stack, the table data before and after its action,
                        \* and the kind of the last step: "action" (one that
                        \* added an undo state), "call", "undo", "redo"
    \* AppState, and the walk to the limit of the undo stacks
    app_undo_stack,     \* AppState.undo_stack
    app_redo_stack,     \* AppState.redo_stack
    cap_walk,           \* the steps followed besides the filling of a stack
    \* AutoSaveManager and the window that feeds it
    is_dirty,           \* AutoSaveManager.is_dirty
    data_providers,     \* AutoSaveManager.data_providers: name -> provider (<<>> when
                        \* the name is not registered)
    autosave_file,      \* session.autosave.json: <<>> when missing, else <<content>>
    app_chunk_size,     \* AppState.chunk_size of the window
    autosave_log,       \* history variable: what the last call did
    \* APIServiceManager
    services,           \* APIServiceManager.services: id -> config (<<>> when absent)
    api_keys,           \* APIServiceManager.api_keys: id -> encrypted key (<<>> when absent)
    services_file,      \* api_services.json: <<>> when missing, else <<services>>
    keys_file,          \* api_keys.enc: <<>> when missing, else <<keys>>
    service_log,        \* history variable: the last call and what it returned
    \* one call of APIServiceManager.call_api
    api_pc,             \* "idle", "loop", "done" ("off" outside ApiSpec)
    api_call,           \* the service_id of the call, and its max_retries and retry_delay
    api_attempt,        \* attempt of the for loop
    api_log,            \* the requests sent and the sleeps made, in order
    api_result,         \* [success, raised] once the call is over
    \* HistoryManager with summarize_history
    history_log,        \* history variable: the last call, its arguments and what
                        \* it returned
    \* ProjectManager
    project_state,      \* the lists of ProjectManager.state: <<>> for a missing key
    project_dirty,      \* ProjectManager.is_dirty
    project_disk,       \* the project file: <<>> when missing, else <<content>>
    project_calls,      \* history variable: for every path, the outcome of the last
                        \* add_processed_file call for it ("pending" if none)
    project_log         \* history variable: the last call

parseVars == <<raw_output, parse_out, parse_pc>>

engineVars == <<node, state_error, state_result, retry_count, chunk, max_retries,
                has_model, translation_count, engine_calls, invocations,
                last_attempt, last_lines>>

batchVars == <<chunks, results, batch_i, batch_pc, call_log, sleeps, sleep_time, batch_log>>

tableVars == <<table_source, table_target, undo_stack, redo_stack, modified_cells,
               chunk_size, json_chunks, opt_chunks, w_chunks, row_mapping, built>>

workerVars == <<w_i, w_pc, w_calls, chat_history>>

contextVars == <<context_config, loaded_files, context_call, context_result>>

\* the variables of the components that are not part of the translation run
historyVars == <<history_file, history_disk>>

undoVars == <<selected_indexes, action_contents>>

capVars == <<app_undo_stack, app_redo_stack, cap_walk>>

\* the variables of the components modelled last
autosaveVars == <<is_dirty, data_providers, autosave_file, app_chunk_size, autosave_log>>

serviceVars == <<services, api_keys, services_file, keys_file, service_log>>

apiVars == <<api_pc, api_call, api_attempt, api_log, api_result>>

summaryVars == <<history_log>>

projectVars == <<project_state, project_dirty, project_disk, project_calls, project_log>>

restVars == <<autosaveVars, serviceVars, apiVars, summaryVars, projectVars>>

lateVars == <<capVars, restVars>>

otherVars == <<contextVars, historyVars, undoVars, lateVars>>

vars == <<parseVars, engineVars, batchVars, tableVars, workerVars, otherVars>>

notParse == <<engineVars, batchVars, tableVars, workerVars, otherVars>>

notEngine == <<parseVars, batchVars, tableVars, workerVars, otherVars>>

\* ContextConfig(): the configuration a new ContextManager holds
ContextConfig ==
    [enabled_files |-> <<>>, source_column |-> "original text",
     translation_column |-> "Initial", chunk_size |-> 50, max_context_chunks |-> 10,
     only_translated_rows |-> TRUE, include_row_numbers |-> FALSE,
     reverse_order |-> FALSE]

ContextOff ==
    /\ context_config = ContextConfig /\ loaded_files = <<>>
    /\ context_call = "off" /\ context_result = <<>>

NoFile == [exists |-> FALSE, messages |-> <<>>]

\* the names main_window registers its providers under, and one more
ProviderNames == {"table_data", "ui_state", "project_state", "extra"}

HistoryOff == history_file = "" /\ history_disk = NoFile

NoContents == [undo |-> <<>>, redo |-> <<>>, last |-> "none"]

UndoOff == selected_indexes = {} /\ action_contents = NoContents

CapOff == app_undo_stack = <<>> /\ app_redo_stack = <<>> /\ cap_walk = 0

NoProviders == [name \in ProviderNames |-> <<>>]

NoLog == [op |-> "none", collected |-> {}, failed |-> {}, wrote |-> FALSE,
          write_failed |-> FALSE, emitted |-> FALSE]

AutosaveOff ==
    /\ is_dirty = FALSE /\ data_providers = NoProviders /\ autosave_file = <<>>
    /\ app_chunk_size = 0 /\ autosave_log = NoLog

NoServiceLog == [op |-> "none", service_id |-> "", returned |-> FALSE]

ServiceOff ==
    /\ services = <<>> /\ api_keys = <<>> /\ services_file = <<>> /\ keys_file = <<>>
    /\ service_log = NoServiceLog

NoResult == [success |-> FALSE, raised |-> FALSE]

NoCall == [service_id |-> "", max_retries |-> 0, retry_delay |-> 0]

ApiOff ==
    /\ api_pc = "off" /\ api_call = NoCall /\ api_attempt = 0 /\ api_log = <<>>
    /\ api_result = NoResult

NoHistoryLog == [op |-> "none", file_name |-> <<>>, num_rows |-> 0, size |-> 0,
                 returned |-> FALSE, summaries |-> 0]

SummaryOff == history_log = NoHistoryLog

NoLists == [processed_files |-> <<>>, failed_files |-> <<>>]

NoProjectLog == [op |-> "none", key |-> <<>>, success |-> FALSE, before |-> "pending"]

ProjectOff ==
    /\ project_state = NoLists /\ project_dirty = FALSE /\ project_disk = <<>>
    /\ project_calls = <<>> /\ project_log = NoProjectLog

RestOff == AutosaveOff /\ ServiceOff /\ ApiOff /\ SummaryOff /\ ProjectOff

LateOff == CapOff /\ RestOff

OtherOff == ContextOff /\ HistoryOff /\ UndoOff /\ LateOff

ParseOff == raw_output = <<>> /\ parse_out = [raised |-> FALSE, result |-> <<>>] /\ parse_pc = "off"

EngineOff ==
    /\ node = "off" /\ state_error = "" /\ state_result = <<>> /\ retry_count = 0
    /\ chunk = NewChunk(0, <<>>, 0, 0) /\ max_retries = 0 /\ has_model = FALSE
    /\ translation_count = 0 /\ engine_calls = 0 /\ invocations = 0
    /\ last_attempt = "none" /\ last_lines = {}

BatchOff ==
    /\ chunks = <<>> /\ results = <<>> /\ batch_i = 1 /\ batch_pc = "off"
    /\ call_log = <<>> /\ sleeps = 0 /\ sleep_time = 0 /\ batch_log = <<>>

TableOff ==
    /\ table_source = <<>> /\ table_target = <<>> /\ chunk_size = 1
    /\ undo_stack = <<>> /\ redo_stack = <<>> /\ modified_cells = {}
    /\ json_chunks = <<>> /\ opt_chunks = <<>> /\ w_chunks = <<>>
    /\ row_mapping = <<>> /\ built = {}

WorkerOff == w_i = 1 /\ w_pc = "off" /\ w_calls = <<>> /\ chat_history = <<>>

\* all sequences over set of a length from lo to hi
SeqsOf(set, lo, hi) == UNION {[1..n -> set] : n \in lo..hi}

\* ------------------------------------------------------------------------
\* ParseSpec: _parse_translation_response called on a text
\* ------------------------------------------------------------------------

ParseAlphabet == {"{", "}", "[", "]", Q, "1", ",", ".", WS, BT}

GoodResponse == Resp(ItemsFor(<<1, 2>>))

\* answers of a provider: well-formed, with items that lack a key or are no
\* object, with a translation that is no list, a bare list, an object without
\* "translation", an unescaped quote inside a text, and no JSON at all
ParseBodies ==
    {GoodResponse,
     Resp(<<Item("1", StrLit(<<"a">>)), <<"{", Q, "line", Q, ":", "2", "}">>>>),
     Resp(<<<<"1">>, Item("2", StrLit(<<"a">>))>>),
     <<"{", Q, "translation", Q, ":", "1", "}">>,
     <<"[">> \o JoinComma(ItemsFor(<<1>>)) \o <<"]">>,
     <<"{", Q, "x", Q, ":", "1", "}">>,
     Resp(<<Item("1", <<Q, "a", Q, "x", Q>>)>>),
     Garbage,
     <<>>}

ParsePrefixes == {<<>>, FenceJson, Fence, <<WS>>, <<"a", WS>>}

ParseSuffixes == {<<>>, Fence, <<".", ".", ".">>, <<WS>>, <<WS, "a">>}

\* the bodies of the text values of a well-formed answer: a plain one, and one
\* with brackets, dots and an escaped quote in it
TextBodies == {<<"a">>, <<"}", "[", ".", ".", ".", BS, Q>>}

\* the items of a well-formed answer: <<line, text body>> pairs
ItemSpecs == SeqsOf((1..3) \X TextBodies, 0, MaxTexts)

WellFormed(items) ==
    Resp([i \in 1..Len(items) |-> Item(DigitSym[items[i][1]], StrLit(items[i][2]))])

\* an answer bare, and between fences
Wrappings == {"bare", "fence", "json", "tight", "padded"}

Wrapped(w, body) ==
    CASE w = "bare" -> body
      [] w = "fence" -> Fence \o <<WS>> \o body \o <<WS>> \o Fence
      [] w = "json" -> FenceJson \o <<WS>> \o body \o <<WS>> \o Fence
      [] w = "tight" -> FenceJson \o body \o Fence
      [] w = "padded" -> <<WS>> \o FenceJson \o <<WS>> \o body \o <<WS>> \o Fence \o <<WS, WS>>

\* the texts ParseSpec starts from: a body between a prefix and a suffix, every
\* truncation of a well-formed answer, every short text over ParseAlphabet, and
\* the well-formed answers, bare and fenced
ParseInputs ==
    {p \o b \o x : p \in ParsePrefixes, b \in ParseBodies, x \in ParseSuffixes}
    \cup {SubSeq(GoodResponse, 1, n) : n \in 0..Len(GoodResponse)}
    \cup SeqsOf(ParseAlphabet, 0, MaxRawLen)
    \cup {Wrapped(w, WellFormed(items)) : w \in Wrappings, items \in ItemSpecs}

ParseInit ==
    /\ raw_output \in ParseInputs
    /\ parse_out = [raised |-> FALSE, result |-> <<>>]
    /\ parse_pc = "ready"
    /\ EngineOff /\ BatchOff /\ TableOff /\ WorkerOff /\ OtherOff

\* one call of TranslationEngine._parse_translation_response
parse_translation_response ==
    /\ parse_pc = "ready"
    /\ parse_out' = ParseCall(raw_output)
    /\ parse_pc' = "done"
    /\ UNCHANGED raw_output
    /\ UNCHANGED notParse

ParseNext == parse_translation_response

ParseSpec == ParseInit /\ [][ParseNext]_vars

\* C10: a call of _parse_translation_response returns without raising; what it
\* returns is a list of objects that each hold "line" and "text"; and it is the
\* empty list when no JSON could be recovered from the text.
C10_ParserTotal ==
    parse_pc = "done" =>
        /\ ~parse_out.raised
        /\ \A i \in 1..Len(parse_out.result) : IsTranslationItem(parse_out.result[i])
        /\ (~LoadResponseData(CleanedOutput(raw_output)).ok => parse_out.result = <<>>)

\* C10, its case: a text whose parsing ends in an exception inside the call
C10_Witness ==
    /\ parse_pc = "done"
    /\ raw_output # <<>>
    /\ ParseBody(raw_output).raised
    /\ parse_out.result = <<>>

\* ------------------------------------------------------------------------
\* EngineSpec: one chunk, translated through translate_chunk and through
\* translate_chunk_async
\* ------------------------------------------------------------------------

EngineTexts ==
    SeqsOf({StrEntry(<<"a">>), StrEntry(<<>>)}, 1, MaxTexts)
    \cup {[i \in 1..n |-> DictEntry(i, <<"a">>)] : n \in 1..MaxTexts}

\* the answers of the provider: well-formed answers for several sets of lines
\* (fenced or not), an item whose text is itself an object, and no JSON at all
EngineResponses ==
    {Resp(ItemsFor(ls)) : ls \in {<<1>>, <<1, 2>>, <<1, 3>>, <<1, 2, 3>>}}
    \cup {FenceJson \o Resp(ItemsFor(<<1, 2>>)) \o Fence,
          Resp(<<Item("1", <<"{", Q, "line", Q, ":", "1", "}">>)>>),
          Resp(<<>>),
          Garbage}

Outcomes == {Raise} \cup {Answer(r) : r \in EngineResponses}

EngineInit ==
    /\ OtherOff /\ ParseOff /\ BatchOff /\ TableOff /\ WorkerOff
    /\ node = "idle" /\ state_error = "" /\ state_result = <<>> /\ retry_count = 0
    /\ chunk \in {NewChunk(0, t, 0, Len(t) - 1) : t \in EngineTexts}
    /\ max_retries \in 0..MaxRetries
    /\ has_model \in BOOLEAN
    /\ translation_count = 0 /\ engine_calls = 0 /\ invocations = 0
    /\ last_attempt = "none" /\ last_lines = {}

Callable == node \in {"idle", "END"} /\ engine_calls < MaxCalls

\* TranslationEngine.set_api_key: the provider's model is initialised
set_api_key ==
    /\ node \in {"idle", "END"} /\ ~has_model
    /\ has_model' = TRUE
    /\ UNCHANGED <<node, state_error, state_result, retry_count, chunk, max_retries,
                   translation_count, engine_calls, invocations, last_attempt,
                   last_lines>>
    /\ UNCHANGED notEngine

\* TranslationEngine.translate_chunk
translate_chunk ==
    /\ Callable
    /\ \E outcome \in Outcomes :
          chunk' = translate_chunk_sync(chunk, has_model, outcome).chunk
    /\ engine_calls' = engine_calls + 1
    /\ node' = "idle"
    /\ UNCHANGED <<state_error, state_result, retry_count, max_retries, has_model,
                   translation_count, invocations, last_attempt, last_lines>>
    /\ UNCHANGED notEngine

\* TranslationEngine.translate_chunk_async: a fresh TranslationState enters the graph
translate_chunk_async ==
    /\ Callable
    /\ node' = "prepare_request"
    /\ state_error' = "" /\ state_result' = <<>> /\ retry_count' = 0
    /\ engine_calls' = engine_calls + 1
    /\ invocations' = 0 /\ last_attempt' = "none" /\ last_lines' = {}
    /\ UNCHANGED <<chunk, max_retries, has_model, translation_count>>
    /\ UNCHANGED notEngine

\* node prepare_request
prepare_request ==
    /\ node = "prepare_request"
    /\ state_error' = PrepareError(chunk.original_texts)
    /\ node' = "translate_chunk"
    /\ UNCHANGED <<state_result, retry_count, chunk, max_retries, has_model,
                   translation_count, engine_calls, invocations, last_attempt,
                   last_lines>>
    /\ UNCHANGED notEngine

\* node translate_chunk (_translate_chunk) and the edge _should_validate
graph_translate_chunk ==
    /\ node = "translate_chunk"
    /\ IF ~has_model
       THEN /\ state_error' = "No model available for provider"
            /\ UNCHANGED <<state_result, invocations, last_lines>>
       ELSE \E outcome \in Outcomes :
              LET parsed_result == _parse_translation_response(outcome.content)
              IN /\ invocations' = invocations + 1
                 /\ IF outcome.raises
                    THEN /\ state_error' = "Translation error"
                         /\ UNCHANGED <<state_result, last_lines>>
                    ELSE /\ last_lines' = ResultLines(parsed_result)
                         /\ IF parsed_result # <<>>
                            THEN /\ state_result' = ItemTexts(parsed_result)
                                 /\ UNCHANGED state_error
                            ELSE /\ state_error' = "Failed to parse translation response"
                                 /\ UNCHANGED state_result
    /\ last_attempt' = IF state_error' = "" THEN "none" ELSE "error"
    /\ node' = should_validate(state_error')
    /\ UNCHANGED <<retry_count, chunk, max_retries, has_model, translation_count,
                   engine_calls>>
    /\ UNCHANGED notEngine

\* node validate_result (_validate_result) and the edge _should_retry
validate_result ==
    /\ node = "validate_result"
    /\ state_error' = ValidationError(state_result, chunk.original_texts)
    /\ last_attempt' = IF state_error' = "" THEN "ok" ELSE "error"
    /\ node' = should_retry(state_error')
    /\ UNCHANGED <<state_result, retry_count, chunk, max_retries, has_model,
                   translation_count, engine_calls, invocations, last_lines>>
    /\ UNCHANGED notEngine

\* node retry_translation (_retry_translation) and the edge _should_continue_retry
graph_retry_translation ==
    /\ node = "retry_translation"
    /\ retry_count' = retry_translation(retry_count, state_error).retry_count
    /\ state_error' = retry_translation(retry_count, state_error).error
    /\ node' = should_continue_retry(retry_count', max_retries)
    /\ UNCHANGED <<state_result, chunk, max_retries, has_model, translation_count,
                   engine_calls, invocations, last_attempt, last_lines>>
    /\ UNCHANGED notEngine

\* node finalize_result (_finalize_result), then END; _update_history fails on
\* the state it is handed and logs it
finalize_result ==
    /\ node = "finalize_result"
    /\ chunk' = FinalizedChunk(chunk, state_error, state_result)
    /\ translation_count' = translation_count + 1
    /\ node' = "END"
    /\ UNCHANGED <<state_error, state_result, retry_count, max_retries, has_model,
                   engine_calls, invocations, last_attempt, last_lines>>
    /\ UNCHANGED notEngine

GraphStep ==
    \/ prepare_request
    \/ graph_translate_chunk
    \/ validate_result
    \/ graph_retry_translation
    \/ finalize_result

EngineNext ==
    \/ set_api_key
    \/ translate_chunk
    \/ translate_chunk_async
    \/ prepare_request
    \/ graph_translate_chunk
    \/ validate_result
    \/ graph_retry_translation
    \/ finalize_result

EngineSpec == EngineInit /\ [][EngineNext]_vars

\* ------------------------------------------------------------------------
\* Properties of the engine
\* ------------------------------------------------------------------------

\* C1: when a graph run ends, a run whose last attempt ended in an error
\* (translation or validation) has marked the chunk "failed", and the chunk is
\* "completed" only if the last attempt passed validation.
C1_FailedWhenRetriesExhausted ==
    node = "END" =>
        /\ (last_attempt = "error" => chunk.status = "failed")
        /\ (chunk.status = "completed" => last_attempt = "ok")

\* C3: a chunk whose status is "completed" holds as many translated_texts as
\* its original_texts hold non-blank entries, whichever path translated it.
C3_CompletedLengthMatches ==
    chunk.status = "completed" =>
        Len(chunk.translated_texts) = NonBlankCount(chunk.original_texts)

\* C4: a chunk whose status is "failed" holds no translated_texts, also when an
\* earlier call had completed it.
C4_FailedHasNoTexts ==
    chunk.status = "failed" => chunk.translated_texts = <<>>

\* the nodes of the graph
GraphNodes ==
    {"prepare_request", "translate_chunk", "validate_result", "retry_translation",
     "finalize_result"}

\* the place of a node on the way from prepare_request to END within one attempt
NodeRank(n) ==
    CASE n = "prepare_request" -> 5
      [] n = "translate_chunk" -> 4
      [] n = "validate_result" -> 3
      [] n = "retry_translation" -> 2
      [] n = "finalize_result" -> 1
      [] OTHER -> 0

\* a measure of what is left of a graph run: the retries left, then the node
GraphRank == 5 * (Max(max_retries, 1) - retry_count) + NodeRank(node)

\* a step taken from a node of the graph lowers the measure, and only
\* finalize_result leads to END
RankFalls ==
    node \in GraphNodes =>
        (GraphRank' < GraphRank /\ (node' = "END" => node = "finalize_result"))

\* C6: a started graph run ends after finitely many steps (every step of the
\* graph lowers a measure that never falls below zero, and finalize_result is
\* the only way out); it invokes the model at most max_retries + 1 times; and the
\* model is invoked again after a retry only with the error cleared.
C6_GraphTerminates ==
    /\ [](invocations <= max_retries + 1)
    /\ []((node = "translate_chunk" /\ retry_count > 0) => state_error = "")
    /\ [](node \in GraphNodes => GraphRank >= 1)
    /\ [][RankFalls]_vars

\* C6, its case: a run that ended after two retries, the model invoked each time
C6_Witness ==
    node = "END" /\ retry_count >= 2 /\ invocations >= 2

\* C7: the validator lets a result through to finalize_result only if the set of
\* line numbers the answer returned equals the set requested for the chunk.
C7_ValidatorChecksLines ==
    (node = "finalize_result" /\ last_attempt = "ok") =>
        last_lines = {NumVal(i) : i \in RequestedLines(chunk.original_texts)}

\* ------------------------------------------------------------------------
\* BatchSpec: TranslationEngine.translate_chunks on a list of chunks
\* ------------------------------------------------------------------------

\* the entries of the log of translate_chunks
CallEvent(i) == [event |-> "translate_chunk", i |-> i, time |-> 0]

SleepEvent(i, time) == [event |-> "sleep", i |-> i, time |-> time]

\* a sleep after every round: without "if i < len(chunks) - 1"
SleepAlways(i, n, time) == <<SleepEvent(i + 1, time)>>

\* "Sleep between requests to avoid rate limits": i counts the rounds from 0
SleepBetween(i, n, time) == IF i < n - 1 THEN <<SleepEvent(i + 1, time)>> ELSE <<>>

\* request.sleep_time, in seconds
SleepTimes == {0, 2}

BatchTexts == {<<StrEntry(<<"a">>)>>, <<StrEntry(<<"a">>), StrEntry(<<"a">>)>>}

\* the lists of chunks, chunk_id counting from 0 as the builders number them
BatchChunks ==
    {[k \in 1..Len(texts) |-> NewChunk(k - 1, texts[k], 0, Len(texts[k]) - 1)] :
        texts \in SeqsOf(BatchTexts, 0, MaxChunks)}

BatchInit ==
    /\ chunks \in BatchChunks
    /\ results = <<>> /\ batch_i = 1 /\ batch_pc = "idle"
    /\ call_log = <<>> /\ sleeps = 0
    /\ sleep_time \in SleepTimes /\ batch_log = <<>>
    /\ node = "off" /\ state_error = "" /\ state_result = <<>> /\ retry_count = 0
    /\ chunk = NewChunk(0, <<>>, 0, 0) /\ max_retries = 0
    /\ has_model \in BOOLEAN
    /\ translation_count = 0 /\ engine_calls = 0 /\ invocations = 0
    /\ last_attempt = "none" /\ last_lines = {}
    /\ OtherOff /\ ParseOff /\ TableOff /\ WorkerOff

\* translate_chunks is entered: results = [], and the loop ends at once on []
translate_chunks_begin ==
    /\ batch_pc = "idle"
    /\ results' = <<>>
    /\ batch_i' = 1
    /\ batch_pc' = IF Len(chunks) = 0 THEN "done" ELSE "loop"
    /\ UNCHANGED <<chunks, call_log, sleeps, sleep_time, batch_log>>
    /\ UNCHANGED <<otherVars, parseVars, engineVars, tableVars, workerVars>>

\* one round of the loop of translate_chunks; after the last one it returns
translate_chunks_step ==
    /\ batch_pc = "loop"
    /\ \E outcome \in Outcomes :
          LET r == translate_chunk_sync(chunks[batch_i], has_model, outcome)
          IN /\ call_log' = Append(call_log, batch_i)
             /\ chunks' = [chunks EXCEPT ![batch_i] = r.chunk]
             /\ IF r.raised
                THEN /\ batch_pc' = "raised"
                     /\ batch_log' = Append(batch_log, CallEvent(batch_i))
                     /\ UNCHANGED <<results, sleeps, translation_count, batch_i>>
                ELSE /\ results' = Append(results, r.chunk.chunk_id)
                     /\ sleeps' = IF batch_i < Len(chunks) THEN sleeps + 1 ELSE sleeps
                     /\ batch_log' = Append(batch_log, CallEvent(batch_i))
                                        \o SleepBetween(batch_i - 1, Len(chunks), sleep_time)
                     /\ translation_count' = translation_count + 1
                     /\ batch_i' = batch_i + 1
                     /\ batch_pc' = IF batch_i = Len(chunks) THEN "done" ELSE "loop"
    /\ UNCHANGED sleep_time
    /\ UNCHANGED <<node, state_error, state_result, retry_count, chunk, max_retries,
                   has_model, engine_calls, invocations, last_attempt, last_lines>>
    /\ UNCHANGED <<otherVars, parseVars, tableVars, workerVars>>

BatchNext ==
    \/ translate_chunks_begin
    \/ translate_chunks_step

BatchSpec == BatchInit /\ [][BatchNext]_vars

\* C5: translate_chunks calls translate_chunk once for every chunk of its list,
\* in list order, whether earlier chunks failed or the model raised, and returns
\* a list of the same length and order as the list it was handed.
C5_EveryChunkOnce ==
    /\ batch_pc \in {"idle", "loop", "done"}
    /\ call_log = [k \in 1..Len(call_log) |-> k]
    /\ batch_pc = "loop" => Len(call_log) = batch_i - 1
    /\ batch_pc = "done" =>
          /\ Len(call_log) = Len(chunks)
          /\ results = [k \in 1..Len(chunks) |-> chunks[k].chunk_id]
          /\ sleeps = Max(Len(chunks) - 1, 0)

\* C5, its case: a call that returned after a first chunk that failed and a
\* later chunk that completed
C5_Witness ==
    /\ batch_pc = "done" /\ Len(chunks) >= 2 /\ has_model
    /\ chunks[1].status = "failed" /\ chunks[2].status = "completed"

\* ------------------------------------------------------------------------
\* The table and the three chunk builders
\* ------------------------------------------------------------------------

\* a cell that holds no value (NaN); every other cell is a text
NaN == <<"<NaN>">>

NanText == <<"n", "a", "n">>

\* str(value) of a cell
CellStr(cell) == IF cell = NaN THEN NanText ELSE cell

\* fillna("").astype(str) of a cell
FillNaStr(cell) == IF cell = NaN THEN <<>> ELSE cell

\* text.lower(); "N" is the one upper-case letter of the cells
Lower(text) == [i \in 1..Len(text) |-> IF text[i] = "N" THEN "n" ELSE text[i]]

\* the rows of a column, counted from 1
RowIndexes(column) == [i \in 1..Len(column) |-> i]

\* seq[a:b] of Python, a and b counted from 0
Slice(seq, a, b) == SubSeq(seq, a + 1, Min(b, Len(seq)))

\* CSVConverter.csv_to_json_chunks: "Skip empty or 'nan' entries"
JsonKeep(cell) ==
    /\ FillNaStr(cell) # <<>>
    /\ Strip(FillNaStr(cell)) # <<>>
    /\ Lower(FillNaStr(cell)) # NanText

\* the rows (counted from 1) csv_to_json_chunks keeps, in row order
JsonRows(column) == SelectSeq(RowIndexes(column), LAMBDA i : JsonKeep(column[i]))

json_data_of(column) ==
    [k \in 1..Len(JsonRows(column)) |->
        [line |-> JsonRows(column)[k],
         text |-> Strip(FillNaStr(column[JsonRows(column)[k]]))]]

\* "Split into chunks": for i in range(0, len(json_data), chunk_size)
RECURSIVE JsonLoop(_, _, _, _)
JsonLoop(json_data, size, i, acc) ==
    IF i >= Len(json_data) THEN acc
    ELSE JsonLoop(json_data, size, i + size, Append(acc, Slice(json_data, i, i + size)))

json_chunks_of(column, size) == JsonLoop(json_data_of(column), size, 0, <<>>)

\* OptimizedFileManager.prepare_optimized_translation_chunks
DEFAULT_CHUNK_SIZE == 50

OptChunkSize(size) == IF size = 0 THEN DEFAULT_CHUNK_SIZE ELSE size

\* notna() & (astype(str).str.strip() != "")
OptKeep(cell) == cell # NaN /\ Strip(CellStr(cell)) # <<>>

\* the rows (counted from 1) of non_empty_data, in row order
OptRows(column) == SelectSeq(RowIndexes(column), LAMBDA i : OptKeep(column[i]))

\* the dicts of the rows i..end_idx-1 (counted from 0) of non_empty_data whose
\* stripped text is not empty
OptEntries(column, rows, i, end_idx) ==
    SelectSeq([k \in 1..(end_idx - i) |->
                  DictEntry(rows[i + k], Strip(CellStr(column[rows[i + k]])))],
              LAMBDA e : e.text # <<>>)

OptAppend(acc, entries, start_row, end_row) ==
    IF entries # <<>>
    THEN Append(acc, NewChunk(Len(acc), entries, start_row, end_row))
    ELSE acc

RECURSIVE OptLoop(_, _, _, _, _)
OptLoop(column, rows, size, i, acc) ==
    IF i >= Len(rows) THEN acc
    ELSE OptLoop(column, rows, size, i + size,
                 OptAppend(acc, OptEntries(column, rows, i, Min(i + size, Len(rows))),
                           rows[i + 1] - 1, rows[Min(i + size, Len(rows))] - 1))

opt_chunks_of(column, size) ==
    OptLoop(column, OptRows(column), OptChunkSize(size), 0, <<>>)

\* translate_current_file: "text and text.strip() and text != 'nan'"
UiKeep(cell) ==
    /\ CellStr(cell) # <<>>
    /\ Strip(CellStr(cell)) # <<>>
    /\ CellStr(cell) # NanText

\* original_texts of translate_current_file, one per row
ui_original_texts(column) ==
    [i \in 1..Len(column) |-> IF UiKeep(column[i]) THEN Strip(CellStr(column[i])) ELSE <<>>]

\* "if text and text.strip()" on an entry of original_texts
UiNonEmpty(text) == text # <<>> /\ Strip(text) # <<>>

\* the rows (counted from 1) whose entry of original_texts is kept
UiRows(column) ==
    SelectSeq(RowIndexes(column), LAMBDA i : UiNonEmpty(ui_original_texts(column)[i]))

\* row_mapping: the rows (counted from 0) of texts_to_translate
row_mapping_of(column) ==
    [k \in 1..Len(UiRows(column)) |->
        UiRows(column)[k] - 1]

texts_to_translate_of(column) == SelectSeq(ui_original_texts(column), UiNonEmpty)

StrEntries(texts) == [k \in 1..Len(texts) |-> StrEntry(texts[k])]

\* "Create translation chunks"
RECURSIVE UiLoop(_, _, _, _)
UiLoop(texts, size, i, acc) ==
    IF i >= Len(texts) THEN acc
    ELSE UiLoop(texts, size, i + size,
                Append(acc, NewChunk(Len(acc),
                                     StrEntries(Slice(texts, i, Min(i + size, Len(texts)))),
                                     i, Min(i + size, Len(texts)) - 1)))

ui_chunks_of(column, size) == UiLoop(texts_to_translate_of(column), size, 0, <<>>)

\* ------------------------------------------------------------------------
\* ChunkSpec: the chunk builders called on a loaded table
\* ------------------------------------------------------------------------

CellValues ==
    {NaN, <<>>, <<WS>>, NanText, <<"N", "a", "n">>, <<"x">>, <<WS, "x", WS>>}

EmptyCell == JVal("str", <<>>, <<>>)

ChunkInit ==
    /\ table_source \in SeqsOf(CellValues, 0, MaxRows)
    /\ table_target = [i \in 1..Len(table_source) |-> EmptyCell]
    /\ undo_stack = <<>> /\ redo_stack = <<>> /\ modified_cells = {}
    /\ chunk_size \in 1..MaxChunkSize
    /\ json_chunks = <<>> /\ opt_chunks = <<>> /\ w_chunks = <<>>
    /\ row_mapping = <<>> /\ built = {}
    /\ w_i = 1 /\ w_pc = "idle" /\ w_calls = <<>> /\ chat_history = <<>>
    /\ OtherOff /\ ParseOff /\ EngineOff /\ BatchOff

\* CSVConverter.csv_to_json_chunks on the source column
csv_to_json_chunks ==
    /\ "csv" \notin built
    /\ json_chunks' = json_chunks_of(table_source, chunk_size)
    /\ built' = built \cup {"csv"}
    /\ UNCHANGED <<table_source, table_target, undo_stack, redo_stack, modified_cells,
                   chunk_size, opt_chunks, w_chunks, row_mapping>>
    /\ UNCHANGED <<otherVars, parseVars, engineVars, batchVars, workerVars>>

\* OptimizedFileManager.prepare_optimized_translation_chunks, max_chunks left out
prepare_optimized_translation_chunks ==
    /\ "opt" \notin built
    /\ opt_chunks' = opt_chunks_of(table_source, chunk_size)
    /\ built' = built \cup {"opt"}
    /\ UNCHANGED <<table_source, table_target, undo_stack, redo_stack, modified_cells,
                   chunk_size, json_chunks, w_chunks, row_mapping>>
    /\ UNCHANGED <<otherVars, parseVars, engineVars, batchVars, workerVars>>

\* translate_current_file up to the start of its worker thread: it returns at
\* once on an empty table and when no text is left to translate
translate_current_file ==
    /\ w_pc = "idle"
    /\ built' = built \cup {"ui"}
    /\ IF Len(table_source) = 0 \/ texts_to_translate_of(table_source) = <<>>
       THEN /\ w_pc' = "done"
            /\ UNCHANGED <<w_chunks, row_mapping>>
       ELSE /\ row_mapping' = row_mapping_of(table_source)
            /\ w_chunks' = ui_chunks_of(table_source, chunk_size)
            /\ w_pc' = "loop"
    /\ w_i' = 1
    /\ UNCHANGED <<table_source, table_target, undo_stack, redo_stack, modified_cells,
                   chunk_size, json_chunks, opt_chunks, w_calls, chat_history>>
    /\ UNCHANGED <<otherVars, parseVars, engineVars, batchVars>>

ChunkNext ==
    \/ csv_to_json_chunks
    \/ prepare_optimized_translation_chunks
    \/ translate_current_file

ChunkSpec == ChunkInit /\ [][ChunkNext]_vars

\* the rows of the source column that are not blank: they hold a text that is
\* not empty and not white space only
NonBlankRows ==
    {i \in 1..Len(table_source) : table_source[i] # NaN /\ Strip(table_source[i]) # <<>>}

CeilDiv(k, n) == (k + n - 1) \div n

StrictlyIncreasing(lines) == \A a, b \in 1..Len(lines) : a < b => lines[a] < lines[b]

\* the line numbers of a chunk of each builder
JsonLines(c) == [k \in 1..Len(json_chunks[c]) |-> json_chunks[c][k].line]

OptLines(c) ==
    [k \in 1..Len(opt_chunks[c].original_texts) |-> opt_chunks[c].original_texts[k].line]

UiLines(c) ==
    [k \in 1..Len(w_chunks[c].original_texts) |->
        row_mapping[w_chunks[c].start_row + k] + 1]

\* C8: with k non-blank rows in the source column and chunk size N, each of the
\* three builders produces ceil(k / N) chunks, and the line numbers within every
\* chunk are strictly increasing.
C8_ChunkCount ==
    /\ "csv" \in built =>
          /\ Len(json_chunks) = CeilDiv(Cardinality(NonBlankRows), chunk_size)
          /\ \A c \in 1..Len(json_chunks) : StrictlyIncreasing(JsonLines(c))
    /\ "opt" \in built =>
          /\ Len(opt_chunks) = CeilDiv(Cardinality(NonBlankRows), chunk_size)
          /\ \A c \in 1..Len(opt_chunks) : StrictlyIncreasing(OptLines(c))
    /\ "ui" \in built =>
          /\ Len(w_chunks) = CeilDiv(Cardinality(NonBlankRows), chunk_size)
          /\ \A c \in 1..Len(w_chunks) : StrictlyIncreasing(UiLines(c))

\* the places (chunk, position) of a builder's chunks that carry line number i
JsonPlaces(i) ==
    {<<c, k>> \in (1..Len(json_chunks)) \X (1..MaxRows + 1) :
        k <= Len(json_chunks[c]) /\ json_chunks[c][k].line = i}

OptPlaces(i) ==
    {<<c, k>> \in (1..Len(opt_chunks)) \X (1..MaxRows + 1) :
        k <= Len(opt_chunks[c].original_texts) /\ opt_chunks[c].original_texts[k].line = i}

\* C9: the chunks of csv_to_json_chunks and of
\* prepare_optimized_translation_chunks partition the non-blank rows: every
\* non-blank row is in exactly one chunk under its 1-based row position, no
\* other line number appears, no chunk is empty, and every chunk but the last
\* holds exactly N lines.
C9_ChunksPartition ==
    /\ "csv" \in built =>
          /\ \A i \in NonBlankRows : Cardinality(JsonPlaces(i)) = 1
          /\ \A c \in 1..Len(json_chunks) :
                /\ \A k \in 1..Len(json_chunks[c]) : json_chunks[c][k].line \in NonBlankRows
                /\ Len(json_chunks[c]) >= 1
                /\ c < Len(json_chunks) => Len(json_chunks[c]) = chunk_size
    /\ "opt" \in built =>
          /\ \A i \in NonBlankRows : Cardinality(OptPlaces(i)) = 1
          /\ \A c \in 1..Len(opt_chunks) :
                /\ \A k \in 1..Len(OptLines(c)) : OptLines(c)[k] \in NonBlankRows
                /\ Len(OptLines(c)) >= 1
                /\ c < Len(opt_chunks) => Len(OptLines(c)) = chunk_size

\* ------------------------------------------------------------------------
\* HistoryManager, EnhancedPandasModel.setData and the worker of
\* translate_current_file
\* ------------------------------------------------------------------------

\* the fields of the dataclass HistoryEntry, and those without a default
HistoryEntryFields == {"role", "content", "timestamp", "model_name", "context_data"}

HistoryEntryRequired == {"role", "content"}

\* HistoryEntry(**kwargs) raises TypeError on an unknown keyword and on a
\* missing required field
HistoryEntryRaises(kwargs) ==
    ~(kwargs \subseteq HistoryEntryFields) \/ ~(HistoryEntryRequired \subseteq kwargs)

\* ChatHistory.add_message on the list of messages
add_message(messages, role, content) ==
    Append(messages, [role |-> role, content |-> content])

\* HistoryManager.add_user_message: the messages of the chat history after it,
\* and whether it raised
add_user_message(history, content) ==
    [history |-> add_message(history, "human", content),
     raised |-> HistoryEntryRaises({"role", "parts", "timestamp", "context_data"})]

\* HistoryManager.add_ai_message
add_ai_message(history, content) ==
    [history |-> add_message(history, "ai", content),
     raised |-> HistoryEntryRaises({"role", "parts", "timestamp", "model_name"})]

\* json.dumps of a list of texts, shortened to the number of its texts
DumpTexts(texts) == <<"[", ToString(Len(texts)), "]">>

\* "Translate to {target_column} column:\n" and the dump of the texts
user_content_of(original_texts) == <<"Translate to", ":">> \o DumpTexts(original_texts)

\* the dump of response_data
ai_content_of(translated_texts) ==
    <<"{", Q, "translation", Q, ":">> \o DumpTexts(translated_texts) \o <<"}">>

\* HistoryManager.add_translation_entry
AfterUserMessage(r, ai_content) ==
    IF r.raised THEN r ELSE add_ai_message(r.history, ai_content)

add_translation_entry(history, original_texts, translated_texts) ==
    AfterUserMessage(add_user_message(history, user_content_of(original_texts)),
                     ai_content_of(translated_texts))

\* str(old) != str(new) of setData: texts and numbers compare by their characters
SameStr(a, b) ==
    IF a.t \in {"str", "num"} /\ b.t \in {"str", "num"} THEN a.s = b.s ELSE a = b

MaxUndoStates == 50

\* EnhancedPandasModel._add_undo_state without its limit
add_undo_state_unlimited(stack, state) == Append(stack, state)

\* EnhancedPandasModel._add_undo_state on the undo stack
add_undo_state(stack, state) ==
    IF Len(stack) + 1 > MaxUndoStates THEN Tail(Append(stack, state))
    ELSE Append(stack, state)

\* str(value) of a cell value that is a text or a number: the text of its
\* characters (the other kinds of value are never cells of the edited tables)
CellText(value) ==
    IF value.t \in {"str", "num"} THEN JVal("str", value.s, <<>>) ELSE value

\* UndoRedoState: cell_position, old_data and new_data are <<>> for None and
\* <<row>> (the table has the one column), <<data>> when set
UndoRedoState(action_type, cell_position, old_value, new_value, old_data, new_data) ==
    [action_type |-> action_type, cell_position |-> cell_position,
     old_value |-> old_value, new_value |-> new_value,
     old_data |-> old_data, new_data |-> new_data]

\* the table after setData(index(row, target column), value): row counts from 0
setData(tab, row, value) ==
    IF SameStr(tab.data[row + 1], value) THEN tab
    ELSE [data |-> [tab.data EXCEPT ![row + 1] = value],
          undo |-> add_undo_state(tab.undo,
                                  UndoRedoState("edit_cell", <<row>>,
                                                CellText(tab.data[row + 1]),
                                                CellText(value), <<>>, <<>>)),
          redo |-> <<>>,
          modified |-> tab.modified \cup {row}]

\* "Update the table model with translated texts": the loop over
\* translated_texts from position j (counted from 0) on
RECURSIVE WriteBack(_, _, _, _, _)
WriteBack(tab, texts, start_row, mapping, j) ==
    IF j >= Len(texts) THEN tab
    ELSE IF start_row + j < Len(mapping) /\ mapping[start_row + j + 1] < Len(tab.data)
         THEN WriteBack(setData(tab, mapping[start_row + j + 1], texts[j + 1]),
                        texts, start_row, mapping, j + 1)
    ELSE WriteBack(tab, texts, start_row, mapping, j + 1)

Table == [data |-> table_target, undo |-> undo_stack, redo |-> redo_stack,
          modified |-> modified_cells]

WorkerCells == {NaN, <<>>, <<"x">>}

WorkerInit ==
    /\ table_source \in SeqsOf(WorkerCells, 0, MaxRows)
    /\ table_target \in [1..Len(table_source) -> {EmptyCell, JVal("str", <<"a">>, <<>>)}]
    /\ undo_stack = <<>> /\ redo_stack = <<>> /\ modified_cells = {}
    /\ chunk_size \in 1..MaxChunkSize
    /\ json_chunks = <<>> /\ opt_chunks = <<>> /\ w_chunks = <<>>
    /\ row_mapping = <<>> /\ built = {}
    /\ w_i = 1 /\ w_pc = "idle" /\ w_calls = <<>> /\ chat_history = <<>>
    /\ node = "off" /\ state_error = "" /\ state_result = <<>> /\ retry_count = 0
    /\ chunk = NewChunk(0, <<>>, 0, 0) /\ max_retries = 0
    /\ has_model \in BOOLEAN
    /\ translation_count = 0 /\ engine_calls = 0 /\ invocations = 0
    /\ last_attempt = "none" /\ last_lines = {}
    /\ OtherOff /\ ParseOff /\ BatchOff

\* the end of a round of the worker's loop that met no exception
WorkerAdvance ==
    /\ sleeps' = IF w_i < Len(w_chunks) THEN sleeps + 1 ELSE sleeps
    /\ w_i' = w_i + 1
    /\ w_pc' = IF w_i = Len(w_chunks) THEN "done" ELSE "loop"

\* what a round does with a chunk the engine handed back
WorkerHandle(translated_chunk, entry) ==
    IF translated_chunk.status = "completed" /\ translated_chunk.translated_texts # <<>>
    THEN /\ table_target' = WriteBack(Table, translated_chunk.translated_texts,
                                      translated_chunk.start_row, row_mapping, 0).data
         /\ undo_stack' = WriteBack(Table, translated_chunk.translated_texts,
                                    translated_chunk.start_row, row_mapping, 0).undo
         /\ redo_stack' = WriteBack(Table, translated_chunk.translated_texts,
                                    translated_chunk.start_row, row_mapping, 0).redo
         /\ modified_cells' = WriteBack(Table, translated_chunk.translated_texts,
                                        translated_chunk.start_row, row_mapping, 0).modified
         /\ chat_history' = entry.history
         /\ IF entry.raised
            THEN w_pc' = "aborted" /\ UNCHANGED <<w_i, sleeps>>
            ELSE WorkerAdvance
    ELSE /\ UNCHANGED <<table_target, undo_stack, redo_stack, modified_cells,
                        chat_history>>
         /\ WorkerAdvance

\* one round of the loop of translation_worker: "except Exception" around the
\* whole loop ends the worker on the first exception
translation_worker ==
    /\ w_pc = "loop"
    /\ \E outcome \in Outcomes :
          /\ w_chunks' = [w_chunks EXCEPT ![w_i] =
                             translate_chunk_sync(w_chunks[w_i], has_model, outcome).chunk]
          /\ WorkerHandle(w_chunks'[w_i],
                          add_translation_entry(chat_history, w_chunks[w_i].original_texts,
                                                w_chunks'[w_i].translated_texts))
    /\ w_calls' = Append(w_calls, w_i)
    /\ UNCHANGED <<table_source, chunk_size, json_chunks, opt_chunks, row_mapping, built>>
    /\ UNCHANGED <<chunks, results, batch_i, batch_pc, call_log, sleep_time, batch_log>>
    /\ UNCHANGED <<otherVars, parseVars, engineVars>>

WorkerNext ==
    \/ translate_current_file
    \/ translation_worker

WorkerSpec == WorkerInit /\ [][WorkerNext]_vars

\* C2: the worker sends every chunk of the batch for translation once, in
\* order: when it has ended, translate_chunk has been called on chunk 1, 2, ...
\* up to the last chunk, whether chunks failed or completed.
C2_EveryChunkAttempted ==
    w_pc \in {"done", "aborted"} => w_calls = [k \in 1..Len(w_chunks) |-> k]

\* ------------------------------------------------------------------------
\* ContextManager
\* ------------------------------------------------------------------------

\* a DataFrame: columns is the set of its column names, rows the sequence of
\* its rows, each a function from the column names to cells; a cell is NaN or
\* a text (the text of a number is what str() makes of it)

\* "if not isinstance(x, str): x = str(x) if pd.notna(x) else ''"
ContextText(cell) == FillNaStr(cell)

NonBlankText(t) == t # <<>> /\ Strip(t) # <<>>

\* "\n".join(parts); the newline is the whitespace symbol
RECURSIVE JoinNewline(_)
JoinNewline(parts) ==
    IF Len(parts) = 0 THEN <<>>
    ELSE IF Len(parts) = 1 THEN parts[1]
    ELSE parts[1] \o <<WS>> \o JoinNewline(Tail(parts))

StripEach(texts) == [i \in 1..Len(texts) |-> Strip(texts[i])]

\* ContextManager._join_chunk_texts
join_chunk_texts(texts) == JoinNewline(StripEach(SelectSeq(texts, NonBlankText)))

\* the texts of one column in the rows start_idx..end_idx-1 of df (from 0)
ColumnTexts(df, column, start_idx, end_idx) ==
    [i \in 1..(end_idx - start_idx) |-> ContextText(df.rows[start_idx + i][column])]

has_valid_translation(chunk_translation) ==
    \E i \in 1..Len(chunk_translation) : NonBlankText(chunk_translation[i])

\* the dict appended for a block: "rows" only with include_row_numbers
ContextEntry(config, original_text, translation_text, start_idx, end_idx) ==
    IF config.include_row_numbers
    THEN [user |-> original_text, assistant |-> translation_text,
          rows |-> <<start_idx, end_idx - 1>>]
    ELSE [user |-> original_text, assistant |-> translation_text]

\* an entry whatever the two texts hold
EntryAlways(config, original_text, translation_text, start_idx, end_idx) ==
    <<ContextEntry(config, original_text, translation_text, start_idx, end_idx)>>

\* "Only add if both have content"
EntryIfContent(config, original_text, translation_text, start_idx, end_idx) ==
    IF original_text # <<>> /\ translation_text # <<>>
    THEN <<ContextEntry(config, original_text, translation_text, start_idx, end_idx)>>
    ELSE <<>>

\* "Only include chunk if configured to include all or has translation"
EntryIfIncluded(config, chunk_original, chunk_translation, start_idx, end_idx) ==
    IF ~config.only_translated_rows \/ has_valid_translation(chunk_translation)
    THEN EntryIfContent(config, join_chunk_texts(chunk_original),
                        join_chunk_texts(chunk_translation), start_idx, end_idx)
    ELSE <<>>

\* one round of the loop over the blocks: nothing, or one entry
BlockContext(df, config, current_start, current_end, start_idx, end_idx) ==
    IF start_idx >= current_start /\ end_idx <= current_end THEN <<>>
    ELSE EntryIfIncluded(config,
            ColumnTexts(df, config.source_column, start_idx, end_idx),
            ColumnTexts(df, config.translation_column, start_idx, end_idx),
            start_idx, end_idx)

\* for start_idx in range(0, num_rows, chunk_size)
RECURSIVE ExtractLoop(_, _, _, _, _, _)
ExtractLoop(df, config, current_start, current_end, start_idx, acc) ==
    IF start_idx >= Len(df.rows) THEN acc
    ELSE ExtractLoop(df, config, current_start, current_end,
            start_idx + config.chunk_size,
            acc \o BlockContext(df, config, current_start, current_end, start_idx,
                                Min(start_idx + config.chunk_size, Len(df.rows))))

\* ContextManager._extract_context_from_dataframe
extract_context_from_dataframe(df, config, current_start, current_end) ==
    IF config.source_column \notin df.columns
       \/ config.translation_column \notin df.columns
    THEN <<>>
    ELSE ExtractLoop(df, config, current_start, current_end, 0, <<>>)

\* what pd.read_csv gives: a DataFrame, or an exception
ReadOk(df) == [ok |-> TRUE, df |-> df]

ReadError == [ok |-> FALSE]

\* ContextManager.load_file; the result is [loaded, ok]

LoadFileOf(loaded, file_path, force_reload, read) ==
    IF file_path \in DOMAIN loaded /\ ~force_reload THEN [loaded |-> loaded, ok |-> TRUE]
    ELSE IF ~read.ok THEN [loaded |-> loaded, ok |-> FALSE]
    ELSE [loaded |-> [f \in DOMAIN loaded \cup {file_path} |->
                        IF f = file_path THEN read.df ELSE loaded[f]],
          ok |-> TRUE]

\* the loop over enabled_files from position i on: [loaded, chunks];
\* reads[f] is what pd.read_csv gives for f during this call
GatherFile(ld, config, current_start, current_end, file_path, acc) ==
    IF ~ld.ok THEN [loaded |-> ld.loaded, chunks |-> acc]
    ELSE [loaded |-> ld.loaded,
          chunks |-> acc \o extract_context_from_dataframe(
                        ld.loaded[file_path], config, current_start, current_end)]

RECURSIVE GatherLoop(_, _, _, _, _, _)
GatherLoop(g, config, reads, current_start, current_end, i) ==
    IF i > Len(config.enabled_files) THEN g
    ELSE GatherLoop(
            GatherFile(LoadFileOf(g.loaded, config.enabled_files[i], FALSE,
                                  reads[config.enabled_files[i]]),
                       config, current_start, current_end,
                       config.enabled_files[i], g.chunks),
            config, reads, current_start, current_end, i + 1)

\* seq[i:] of Python for i <= 0: a negative i counts from the end, -0 is 0
SliceFrom(seq, i) == Drop(seq, IF i < 0 THEN Max(Len(seq) + i, 0) ELSE Min(i, Len(seq)))

Reversed(seq) == [i \in 1..Len(seq) |-> seq[Len(seq) + 1 - i]]

\* "Limit to max chunks"
LimitChunks(context_chunks, max_chunks, reverse_order) ==
    IF Len(context_chunks) > max_chunks
    THEN IF reverse_order THEN SliceFrom(context_chunks, 0 - max_chunks)
         ELSE SubSeq(context_chunks, 1, max_chunks)
    ELSE context_chunks

\* "Reverse order if configured"
OrderChunks(context_chunks, reverse_order) ==
    IF reverse_order THEN Reversed(context_chunks) ELSE context_chunks

\* the argument max_chunks is <<>> for None and <<m>> for the number m:
\* "if max_chunks is None: max_chunks = self.context_config.max_context_chunks"
MaxChunksOf(config, max_chunks) ==
    IF max_chunks = <<>> THEN config.max_context_chunks ELSE max_chunks[1]

\* ContextManager.get_context_for_chunk: [loaded, chunks]
ContextReturn(g, config, max_chunks) ==
    [loaded |-> g.loaded,
     chunks |-> OrderChunks(LimitChunks(g.chunks, MaxChunksOf(config, max_chunks),
                                        config.reverse_order),
                            config.reverse_order)]

get_context_for_chunk_of(loaded, config, reads, current_start, current_end, max_chunks) ==
    ContextReturn(GatherLoop([loaded |-> loaded, chunks |-> <<>>], config, reads,
                             current_start, current_end, 1),
                  config, max_chunks)

\* ------------------------------------------------------------------------
\* ContextSpec: a ContextManager, its configuration and its loaded files
\* ------------------------------------------------------------------------

ContextFiles == {"f1", "f2"}

\* the text of the source cell and of the translation cell of row r of file f
SourceText(f, r) == <<"o", f, ToString(r)>>

TranslationText(f, r) == <<"t", f, ToString(r)>>

\* the rows of the files: translated, not translated (no value, or only
\* whitespace), and a translation without a source text
RowKinds == {"translated", "untranslated", "blank", "unsourced"}

RowOf(f, r, kind) ==
    [c \in {"original text", "Initial"} |->
        IF c = "original text"
        THEN IF kind = "unsourced" THEN NaN ELSE <<WS>> \o SourceText(f, r)
        ELSE IF kind = "untranslated" THEN NaN
        ELSE IF kind = "blank" THEN <<WS>>
        ELSE TranslationText(f, r) \o <<WS>>]

DataFrameOf(f, kinds) ==
    [columns |-> {"original text", "Initial"},
     rows |-> [i \in 1..Len(kinds) |-> RowOf(f, i - 1, kinds[i])]]

\* a file without the translation column
SourceOnly(f) ==
    [columns |-> {"original text"},
     rows |-> <<[c \in {"original text"} |-> SourceText(f, 0)]>>]

\* what pd.read_csv may give for file f: f1 has up to MaxContextRows rows,
\* each with a text in its translation cell or without a source text; f2 has
\* at most one row, translated or not, or lacks the translation column
FileKinds(f) ==
    IF f = "f1" THEN SeqsOf({"translated", "blank", "unsourced"}, 0, MaxContextRows)
    ELSE SeqsOf({"translated", "untranslated"}, 0, 1)

ReadsOf(f) ==
    {ReadOk(DataFrameOf(f, kinds)) : kinds \in FileKinds(f)}
    \cup (IF f = "f2" THEN {ReadOk(SourceOnly(f))} ELSE {})
    \cup {ReadError}

\* the configurations set_config is given: both files enabled, with every
\* chunk_size, max_context_chunks, filter and order; and other lists of
\* enabled files, with row numbers
ContextConfigs ==
    [enabled_files : {<<"f1", "f2">>},
     source_column : {"original text"},
     translation_column : {"Initial"},
     chunk_size : 1..MaxContextChunkSize,
     max_context_chunks : 0..MaxContextChunks,
     only_translated_rows : BOOLEAN,
     include_row_numbers : {FALSE},
     reverse_order : BOOLEAN]
    \cup
    [enabled_files : {<<>>, <<"f1">>, <<"f2", "f1">>},
     source_column : {"original text"},
     translation_column : {"Initial"},
     chunk_size : {1},
     max_context_chunks : {1},
     only_translated_rows : {TRUE},
     include_row_numbers : {TRUE},
     reverse_order : {FALSE}]

ContextInit ==
    /\ context_config = ContextConfig
    /\ loaded_files = <<>>
    /\ context_call = <<>>
    /\ context_result = <<>>
    /\ ParseOff /\ EngineOff /\ BatchOff /\ TableOff /\ WorkerOff /\ HistoryOff /\ UndoOff
    /\ LateOff

notContext == <<parseVars, engineVars, batchVars, tableVars, workerVars, historyVars,
               undoVars, lateVars>>

\* ContextManager.set_config
set_config ==
    \E config \in ContextConfigs :
        /\ context_config' = config
        /\ context_call' = <<>> /\ context_result' = <<>>
        /\ UNCHANGED loaded_files
        /\ UNCHANGED notContext

\* ContextManager.load_file
load_file ==
    \E file_path \in ContextFiles, force_reload \in BOOLEAN :
        \E read \in ReadsOf(file_path) :
            /\ loaded_files' = LoadFileOf(loaded_files, file_path, force_reload, read).loaded
            /\ context_call' = <<>> /\ context_result' = <<>>
            /\ UNCHANGED context_config
            /\ UNCHANGED notContext

\* ContextManager.unload_file
unload_file ==
    \E file_path \in ContextFiles :
        /\ loaded_files' = [f \in DOMAIN loaded_files \ {file_path} |-> loaded_files[f]]
        /\ context_call' = <<>> /\ context_result' = <<>>
        /\ UNCHANGED context_config
        /\ UNCHANGED notContext

\* ContextManager.clear_all
clear_all ==
    /\ loaded_files' = <<>>
    /\ context_call' = <<>> /\ context_result' = <<>>
    /\ UNCHANGED context_config
    /\ UNCHANGED notContext

\* what pd.read_csv may give during one call of get_context_for_chunk: only
\* the enabled files that are not loaded are read
CallReadsOf(f) ==
    IF f \notin DOMAIN loaded_files /\ \E i \in 1..Len(context_config.enabled_files) :
                                            context_config.enabled_files[i] = f
    THEN ReadsOf(f) ELSE {ReadError}

\* ContextManager.get_context_for_chunk
get_context_for_chunk ==
    \E current_chunk_start \in 0..(MaxContextRows - 1),
       current_chunk_end \in 0..(MaxContextRows - 1),
       max_chunks \in {<<>>} \cup {<<m>> : m \in 0..MaxContextChunks} :
        \E reads \in {[f \in ContextFiles |-> IF f = "f1" THEN r[1] ELSE r[2]] :
                        r \in CallReadsOf("f1") \X CallReadsOf("f2")} :
            /\ current_chunk_start <= current_chunk_end
            /\ context_call' = <<current_chunk_start, current_chunk_end, max_chunks>>
            /\ context_result' =
                get_context_for_chunk_of(loaded_files, context_config, reads,
                    current_chunk_start, current_chunk_end, max_chunks).chunks
            /\ loaded_files' =
                get_context_for_chunk_of(loaded_files, context_config, reads,
                    current_chunk_start, current_chunk_end, max_chunks).loaded
            /\ UNCHANGED context_config
            /\ UNCHANGED notContext

ContextNext ==
    \/ set_config
    \/ load_file
    \/ unload_file
    \/ clear_all
    \/ get_context_for_chunk

ContextSpec == ContextInit /\ [][ContextNext]_vars

\* ------------------------------------------------------------------------
\* HistoryManager: the chat history, its file, update_history_for_file
\* ------------------------------------------------------------------------

MaxHistoryEntries == 100

\* HistoryManager._build_chunks over total rows: the rounds of its while loop,
\* each a block [chunk_index, idx, end] of the rows idx..end-1
build_chunks(total, size) ==
    [k \in 1..((total + size - 1) \div size) |->
        [chunk_index |-> k - 1, idx |-> (k - 1) * size, end |-> Min(k * size, total)]]

\* the dump of the lines of a block, shortened to its first and last row
DumpLines(block) == <<"[", ToString(block.idx), "..", ToString(block.end - 1), "]">>

\* "đây là chunk_{chunk_index}_{file_name} cần dịch: " and the dump; the
\* symbol "chunk_" stands for the words up to the underscore
chunk_user_content(block, file_name) ==
    <<"chunk_", ToString(block.chunk_index), "_">> \o file_name \o <<WS, ":", WS>>
        \o DumpLines(block)

\* "đây là kết quả dịch: " and the dump
chunk_model_content(block) == <<"result", ":", WS>> \o DumpLines(block)

is_chunk_of_file(msg_content, file_name) ==
    Contains(msg_content, file_name) /\ StartsWith(msg_content, <<"chunk_">>)

\* "Remove existing chunks for this file": the while loop from i (from 0) on
RECURSIVE FilterMessages(_, _, _, _)
FilterMessages(messages, file_name, i, filtered_messages) ==
    IF i >= Len(messages) THEN filtered_messages
    ELSE IF messages[i + 1].role = "human"
            /\ is_chunk_of_file(messages[i + 1].content, file_name)
         THEN FilterMessages(messages, file_name, i + 2, filtered_messages)
    ELSE FilterMessages(messages, file_name, i + 1,
                        Append(filtered_messages, messages[i + 1]))

\* "Append new chunks at end": a human and an ai message for every block
NewChunkMessages(new_chunks, file_name) ==
    [k \in 1..(2 * Len(new_chunks)) |->
        IF k % 2 = 1
        THEN [role |-> "human",
              content |-> chunk_user_content(new_chunks[(k + 1) \div 2], file_name)]
        ELSE [role |-> "ai", content |-> chunk_model_content(new_chunks[k \div 2])]]

\* HistoryManager.load_history: the messages afterwards; the file is one that
\* save_history wrote, a missing file raises inside the try block
load_history(messages, file, disk) ==
    IF file = "" \/ ~disk.exists THEN messages ELSE disk.messages

\* HistoryManager.save_history: [disk, ok]; written is FALSE when open or
\* json.dump raises
save_history(messages, file, disk, written) ==
    IF file = "" \/ ~written THEN [disk |-> disk, ok |-> FALSE]
    ELSE [disk |-> [exists |-> TRUE, messages |-> messages], ok |-> TRUE]

\* HistoryManager.update_history_for_file on a DataFrame of num_rows rows:
\* the messages before save_history is called
UpdatedMessages(messages, file, disk, file_name, num_rows, size) ==
    FilterMessages(load_history(messages, file, disk), file_name, 0, <<>>)
        \o NewChunkMessages(build_chunks(num_rows, size), file_name)

\* ------------------------------------------------------------------------
\* HistorySpec: a HistoryManager and the calls that record history
\* ------------------------------------------------------------------------

\* the base names of the CSV files
HistoryFileNames == {<<"a", ".", "csv">>, <<"x", "a", ".", "csv">>}

\* the rows of the DataFrames handed to update_history_for_file
HistoryRows == (0..MaxHistoryRows) \cup {MaxHistoryEntries + 1}

HistoryTexts == SeqsOf({<<"a">>}, 0, MaxTexts)

HistoryInit ==
    /\ chat_history = <<>>
    /\ history_file = ""
    /\ history_disk = NoFile
    /\ w_i = 1 /\ w_pc = "off" /\ w_calls = <<>>
    /\ ParseOff /\ EngineOff /\ BatchOff /\ TableOff /\ ContextOff /\ UndoOff
    /\ LateOff

notHistory == <<parseVars, engineVars, batchVars, tableVars, contextVars, undoVars, lateVars,
               w_i, w_pc, w_calls>>

\* the calls that add messages one by one are followed while the history is short
Short == Len(chat_history) < MaxMessages

\* HistoryManager.set_history_file
set_history_file ==
    /\ history_file' = "history.json"
    /\ UNCHANGED <<chat_history, history_disk>>
    /\ UNCHANGED notHistory

\* HistoryManager.add_user_message, called on its own
user_message ==
    /\ Short
    /\ chat_history' = add_user_message(chat_history, <<"hi">>).history
    /\ UNCHANGED <<history_file, history_disk>>
    /\ UNCHANGED notHistory

\* HistoryManager.add_ai_message, called on its own
ai_message ==
    /\ Short
    /\ chat_history' = add_ai_message(chat_history, <<"ok">>).history
    /\ UNCHANGED <<history_file, history_disk>>
    /\ UNCHANGED notHistory

\* HistoryManager.add_translation_entry
translation_entry ==
    /\ Short
    /\ \E original_texts \in HistoryTexts :
          chat_history' = add_translation_entry(chat_history, original_texts,
                                                original_texts).history
    /\ UNCHANGED <<history_file, history_disk>>
    /\ UNCHANGED notHistory

\* HistoryManager.save_history
save_history_call ==
    /\ \E written \in BOOLEAN :
          history_disk' = save_history(chat_history, history_file, history_disk, written).disk
    /\ UNCHANGED <<chat_history, history_file>>
    /\ UNCHANGED notHistory

\* HistoryManager.update_history_for_file; an empty DataFrame returns at once
update_history_for_file ==
    /\ Short
    /\ \E file_name \in HistoryFileNames, num_rows \in HistoryRows,
          size \in 1..MaxChunkSize, written \in BOOLEAN :
          IF num_rows = 0
          THEN UNCHANGED <<chat_history, history_disk>>
          ELSE /\ chat_history' = UpdatedMessages(chat_history, history_file, history_disk,
                                                  file_name, num_rows, size)
               /\ history_disk' = save_history(chat_history', history_file, history_disk,
                                               written).disk
    /\ UNCHANGED history_file
    /\ UNCHANGED notHistory

HistoryNext ==
    \/ set_history_file
    \/ user_message
    \/ ai_message
    \/ translation_entry
    \/ save_history_call
    \/ update_history_for_file

HistorySpec == HistoryInit /\ [][HistoryNext]_vars

\* ------------------------------------------------------------------------
\* Properties of the parser on well-formed and on cut-off answers (ParseSpec)
\* ------------------------------------------------------------------------

\* the value json.loads gives for the item {"line": n, "text": "body"}
ItemValue(n, body) ==
    JVal("obj", <<>>, <<<<<<"line">>, JVal("num", <<DigitSym[n]>>, <<>>)>>,
                        <<<<"text">>, JVal("str", body, <<>>)>>>>)

ItemValues(items) == [i \in 1..Len(items) |-> ItemValue(items[i][1], items[i][2])]

\* the well-formed answers, each with the items it was written from
WellFormedAnswers ==
    {[text |-> Wrapped(w, WellFormed(items)), items |-> ItemValues(items)] :
        w \in Wrappings, items \in ItemSpecs}

\* C11: called on a well-formed answer {"translation": [{"line": i, "text":
\* t_i}, ...]}, bare or between fences, the parser returns exactly the items of
\* the answer, in their order and with their line and text values.
C11_WellFormedRoundTrip ==
    parse_pc = "done" =>
        \A a \in WellFormedAnswers :
            raw_output = a.text =>
                /\ ~ParseBody(raw_output).raised
                /\ parse_out.result = a.items

\* C11, its case: a fenced answer of two different items, the second line first
C11_Witness ==
    /\ parse_pc = "done"
    /\ raw_output = Wrapped("json", WellFormed(<<<<2, <<"}", "[", ".", ".", ".", BS, Q>>>>, <<1, <<"a">>>>>>))
    /\ Len(parse_out.result) = 2
    /\ parse_out.result[1] # parse_out.result[2]

\* the text before the repair of a cut-off answer: fences and ellipsis removed
Unrepaired(raw) == StripEllipsis(CleanFences(raw))

\* the positions of a "}" or "]" that closes a complete top-level structure:
\* after it as many brackets of each kind were closed as were opened
ClosingAt(s) ==
    {i \in 1..Len(s) :
        /\ s[i] \in {"}", "]"}
        /\ CountAt(s, i, "{", "}") = 0
        /\ CountAt(s, i, "[", "]") = 0}

\* the longest prefix that ends with such a closing bracket
BalancedPrefix(s) == SubSeq(s, 1, LastOf(ClosingAt(s)))

\* C12: when the answer, its fences and trailing ellipsis removed, does not end
\* with "}" or "]" and has a complete bracket-balanced prefix, the text given to
\* json.loads is the longest such prefix, and the call returns the items of that
\* prefix.
C12_RepairToBalancedPrefix ==
    (/\ parse_pc = "done"
     /\ ~EndsWith(Unrepaired(raw_output), <<"}">>)
     /\ ~EndsWith(Unrepaired(raw_output), <<"]">>)
     /\ ClosingAt(Unrepaired(raw_output)) # {})
    => /\ CleanedOutput(raw_output) = BalancedPrefix(Unrepaired(raw_output))
       /\ parse_out.result =
            ReturnOf(BodyOf(JsonLoads(BalancedPrefix(Unrepaired(raw_output))))).result

\* ------------------------------------------------------------------------
\* Properties of get_context_for_chunk (ContextSpec)
\* ------------------------------------------------------------------------

Called == context_call # <<>>

\* the enabled files that are loaded when the call returns, in their order
EnabledLoaded ==
    SelectSeq(context_config.enabled_files, LAMBDA f : f \in DOMAIN loaded_files)

\* the context entries that are available to the call: those of the enabled
\* files, file after file and row after row
RECURSIVE AvailableFrom(_)
AvailableFrom(i) ==
    IF i > Len(EnabledLoaded) THEN <<>>
    ELSE extract_context_from_dataframe(loaded_files[EnabledLoaded[i]], context_config,
                                        context_call[1], context_call[2])
         \o AvailableFrom(i + 1)

CallMaxChunks == MaxChunksOf(context_config, context_call[3])

\* C13: get_context_for_chunk returns at most max_chunks entries
\* (max_context_chunks when the argument is None), also when that number is 0
\* and when reverse_order is set.
C13_AtMostMaxChunks ==
    Called => Len(context_result) <= CallMaxChunks

\* C14: when more than max_chunks entries are available the call returns the
\* first max_chunks of them, in their order, if reverse_order is False, and the
\* last max_chunks of them, newest first, if reverse_order is True.
C14_KeepsFirstOrLast ==
    (Called /\ Len(AvailableFrom(1)) > CallMaxChunks) =>
        context_result =
            IF context_config.reverse_order
            THEN Reversed(SubSeq(AvailableFrom(1),
                                 Len(AvailableFrom(1)) - CallMaxChunks + 1,
                                 Len(AvailableFrom(1))))
            ELSE SubSeq(AvailableFrom(1), 1, CallMaxChunks)

\* the first rows (from 0) of the blocks of a file of num_rows rows
BlockStarts(num_rows) ==
    {a \in 0..(num_rows - 1) : a % context_config.chunk_size = 0}

BlockRowsOf(a, num_rows) == a..(Min(a + context_config.chunk_size, num_rows) - 1)

\* no row of the block of file f that starts at row a has a translation that is
\* a text with a symbol other than whitespace
Untranslated(f, a) ==
    \A r \in BlockRowsOf(a, Len(loaded_files[f].rows)) :
        \/ loaded_files[f].rows[r + 1]["Initial"] = NaN
        \/ \A k \in 1..Len(loaded_files[f].rows[r + 1]["Initial"]) :
                loaded_files[f].rows[r + 1]["Initial"][k] = WS

\* the files whose rows hold both columns
TwoColumnFiles ==
    {f \in DOMAIN loaded_files : loaded_files[f].columns = {"original text", "Initial"}}

\* C15: with only_translated_rows a block without any non-blank translation
\* gives no context entry; and, whatever the configuration, every returned
\* entry has a non-empty "user" and a non-empty "assistant" text.
C15_OnlyTranslatedBlocks ==
    Called =>
        /\ \A k \in 1..Len(context_result) :
                context_result[k].user # <<>> /\ context_result[k].assistant # <<>>
        /\ context_config.only_translated_rows =>
                \A f \in TwoColumnFiles :
                    \A a \in BlockStarts(Len(loaded_files[f].rows)) :
                        Untranslated(f, a) =>
                            \A k \in 1..Len(context_result) :
                                \A r \in BlockRowsOf(a, Len(loaded_files[f].rows)) :
                                    ~Contains(context_result[k].user, SourceText(f, r))

\* C15, its case: a call with only_translated_rows that returned an entry and
\* passed over a block of f1 whose rows have a source text and no translation
C15_Witness ==
    /\ Called
    /\ context_config.only_translated_rows
    /\ context_result # <<>>
    /\ "f1" \in TwoColumnFiles
    /\ Len(context_config.enabled_files) > 0
    /\ context_config.enabled_files[1] = "f1"
    /\ \E a \in BlockStarts(Len(loaded_files["f1"].rows)) :
            /\ Untranslated("f1", a)
            /\ ~(a >= context_call[1] /\ a + context_config.chunk_size <= context_call[2])

\* C19: no entry that get_context_for_chunk(s, e) returns holds the source text
\* or the translation of a row of s..e.
C19_CurrentRowsExcluded ==
    Called =>
        \A k \in 1..Len(context_result) :
            \A f \in ContextFiles :
                \A r \in context_call[1]..context_call[2] :
                    /\ ~Contains(context_result[k].user, SourceText(f, r))
                    /\ ~Contains(context_result[k].assistant, TranslationText(f, r))

\* ------------------------------------------------------------------------
\* Properties of the chat history (HistorySpec)
\* ------------------------------------------------------------------------

\* a call of add_translation_entry that returns normally and leaves the old
\* messages followed by the request and the response
AppendsPair ==
    translation_entry =>
        \E texts \in HistoryTexts :
            /\ ~add_translation_entry(chat_history, texts, texts).raised
            /\ chat_history' = chat_history
                    \o <<[role |-> "human", content |-> user_content_of(texts)],
                         [role |-> "ai", content |-> ai_content_of(texts)]>>

\* C16: add_translation_entry returns normally and appends exactly two
\* messages, a "human" request and then an "ai" response, to the end of the chat
\* history; the messages that were there stay as they were, in their order.
C16_EntryAppendsPair == [][AppendsPair]_vars

\* C17: the chat history never holds more than max_history_entries messages.
C17_HistoryCapped == Len(chat_history) <= MaxHistoryEntries

\* ------------------------------------------------------------------------
\* Properties of the order of calls and sleeps of translate_chunks (BatchSpec)
\* ------------------------------------------------------------------------

\* C18: translate_chunks makes its translate_chunk calls (each with at most one
\* model invocation) one after another, in list order, with one sleep of
\* request.sleep_time after every call but the last: the log alternates call,
\* sleep, call, ..., and, once translate_chunks has returned, holds a call for
\* each of the n chunks and n - 1 sleeps, the last entry being the last call.
C18_SleepBetweenCalls ==
    /\ batch_pc \in {"idle", "loop", "done"}
    /\ \A j \in 1..Len(batch_log) :
          batch_log[j] = IF j % 2 = 1 THEN CallEvent((j + 1) \div 2)
                         ELSE SleepEvent(j \div 2, sleep_time)
    /\ batch_pc = "loop" => Len(batch_log) = 2 * (batch_i - 1)
    /\ batch_pc = "done" => Len(batch_log) = Max(2 * Len(chunks) - 1, 0)

\* C18, its case: translate_chunks has returned from a list of three chunks
C18_Witness ==
    /\ batch_pc = "done"
    /\ Len(chunks) = 3
    /\ sleep_time > 0
    /\ Len(SelectSeq(batch_log, LAMBDA e : e.event = "sleep")) = 2
    /\ batch_log[Len(batch_log)].event = "translate_chunk"

\* ------------------------------------------------------------------------
\* UndoSpec: EnhancedPandasModel with a table of one column, edited cell by
\* cell, by paste, replace, cut, delete and data load, with undo and redo
\* ------------------------------------------------------------------------

StrCell(text) == JVal("str", text, <<>>)

\* the bulk actions: the state they record and the table they leave
BulkAction(tab, action_type, new_data, touched) ==
    [data |-> new_data,
     undo |-> add_undo_state(tab.undo,
                             UndoRedoState(action_type, <<>>, NoVal, NoVal,
                                           <<tab.data>>, <<new_data>>)),
     redo |-> <<>>,
     modified |-> tab.modified \cup touched]

\* self._data.iloc[row, col] = "" for every selected index
ClearCells(data, rows) ==
    [i \in 1..Len(data) |-> IF (i - 1) \in rows THEN EmptyCell ELSE data[i]]

\* EnhancedPandasModel.cutSelectedData (the clipboard text it returns is not kept)
cutSelectedData(tab, rows) ==
    IF rows = {} THEN tab
    ELSE BulkAction(tab, "cut_data", ClearCells(tab.data, rows), rows)

\* EnhancedPandasModel.deleteSelectedData
deleteSelectedData(tab, rows) ==
    IF rows = {} THEN tab
    ELSE BulkAction(tab, "delete_data", ClearCells(tab.data, rows), rows)

\* text_data.strip().split("\n") on a text given by its lines, none of which
\* holds whitespace: the empty lines at both ends go, and "" splits to [""]
StripLines(lines) ==
    IF \A i \in 1..Len(lines) : lines[i] = <<>> THEN << <<>> >>
    ELSE SubSeq(lines,
                CHOOSE i \in 1..Len(lines) :
                    lines[i] # <<>> /\ \A j \in 1..(i - 1) : lines[j] = <<>>,
                CHOOSE i \in 1..Len(lines) :
                    lines[i] # <<>> /\ \A j \in (i + 1)..Len(lines) : lines[j] = <<>>)

\* the rows the loop of pasteData writes: it breaks at the end of the table
PastedRows(data, start_row, rows) ==
    {r \in 0..(Len(data) - 1) : r >= start_row /\ r - start_row < Len(rows)}

PastedData(data, start_row, rows) ==
    [i \in 1..Len(data) |->
        IF (i - 1) \in PastedRows(data, start_row, rows)
        THEN StrCell(rows[i - start_row]) ELSE data[i]]

\* EnhancedPandasModel.pasteData: the undo state is added whatever was written
pasteData(tab, start_row, lines) ==
    BulkAction(tab, "paste_data", PastedData(tab.data, start_row, StripLines(lines)),
               PastedRows(tab.data, start_row, StripLines(lines)))

\* cell_value if case_sensitive else cell_value.lower()
CompareValue(text, case_sensitive) == IF case_sensitive THEN text ELSE Lower(text)

\* cell_value.replace(old_text, new_text), and re.sub with re.IGNORECASE, for a
\* non-empty old_text without regular expression characters
RECURSIVE ReplaceAll(_, _, _, _)
ReplaceAll(text, old_text, new_text, case_sensitive) ==
    IF Len(text) < Len(old_text) THEN text
    ELSE IF CompareValue(SubSeq(text, 1, Len(old_text)), case_sensitive)
              = CompareValue(old_text, case_sensitive)
         THEN new_text \o ReplaceAll(SubSeq(text, Len(old_text) + 1, Len(text)),
                                    old_text, new_text, case_sensitive)
    ELSE <<Head(text)>> \o ReplaceAll(Tail(text), old_text, new_text, case_sensitive)

\* the cells replace is to look at
cells_to_check(data, selected_only, selection) ==
    IF selected_only /\ selection # {} THEN selection ELSE 0..(Len(data) - 1)

\* does replace change the cell
Replaces(cell, old_text, case_sensitive, whole_words) ==
    IF whole_words
    THEN CompareValue(old_text, case_sensitive)
            = CompareValue(CellText(cell).s, case_sensitive)
    ELSE Contains(CompareValue(CellText(cell).s, case_sensitive),
                  CompareValue(old_text, case_sensitive))

ReplacedCell(cell, old_text, new_text, case_sensitive, whole_words) ==
    IF whole_words THEN StrCell(new_text)
    ELSE StrCell(ReplaceAll(CellText(cell).s, old_text, new_text, case_sensitive))

ReplacedRows(data, rows, old_text, case_sensitive, whole_words) ==
    {r \in rows : Replaces(data[r + 1], old_text, case_sensitive, whole_words)}

ReplacedData(data, rows, old_text, new_text, case_sensitive, whole_words) ==
    [i \in 1..Len(data) |->
        IF (i - 1) \in ReplacedRows(data, rows, old_text, case_sensitive, whole_words)
        THEN ReplacedCell(data[i], old_text, new_text, case_sensitive, whole_words)
        ELSE data[i]]

\* EnhancedPandasModel.replace: an undo state when replaced_count > 0
replace(tab, rows, old_text, new_text, case_sensitive, whole_words) ==
    IF ReplacedRows(tab.data, rows, old_text, case_sensitive, whole_words) = {} THEN tab
    ELSE BulkAction(tab, "paste_data",
                    ReplacedData(tab.data, rows, old_text, new_text,
                                 case_sensitive, whole_words),
                    ReplacedRows(tab.data, rows, old_text, case_sensitive, whole_words))

\* EnhancedPandasModel.setDataFrame: an undo state unless the table was empty
setDataFrame(tab, dataframe) ==
    IF tab.data # <<>>
    THEN [BulkAction(tab, "translate", dataframe, {}) EXCEPT !.modified = {}]
    ELSE [tab EXCEPT !.data = dataframe, !.modified = {}]

\* self._data.iloc[row, col] = value of undo and redo: an IndexError outside
\* the table, which leaves the data as it was
SetCell(data, row, value) ==
    IF row < Len(data) THEN [data EXCEPT ![row + 1] = value] ELSE data

\* the data after undo has applied the state
UndoneData(data, state) ==
    IF state.action_type = "edit_cell"
    THEN SetCell(data, state.cell_position[1], state.old_value)
    ELSE IF state.action_type \in {"translate", "paste_data"} /\ state.old_data # <<>>
         THEN state.old_data[1]
    ELSE data

\* the data after redo has applied the state
RedoneData(data, state) ==
    IF state.action_type = "edit_cell"
    THEN SetCell(data, state.cell_position[1], state.new_value)
    ELSE IF state.action_type \in {"translate", "paste_data"} /\ state.new_data # <<>>
         THEN state.new_data[1]
    ELSE data

\* EnhancedPandasModel.undo when canUndo()
undo_of(tab) ==
    [data |-> UndoneData(tab.data, tab.undo[Len(tab.undo)]),
     undo |-> SubSeq(tab.undo, 1, Len(tab.undo) - 1),
     redo |-> Append(tab.redo, tab.undo[Len(tab.undo)]),
     modified |-> IF tab.undo[Len(tab.undo)].action_type = "edit_cell"
                  THEN tab.modified \ {tab.undo[Len(tab.undo)].cell_position[1]}
                  ELSE tab.modified]

\* EnhancedPandasModel.redo when canRedo()
redo_of(tab) ==
    [data |-> RedoneData(tab.data, tab.redo[Len(tab.redo)]),
     undo |-> Append(tab.undo, tab.redo[Len(tab.redo)]),
     redo |-> SubSeq(tab.redo, 1, Len(tab.redo) - 1),
     modified |-> IF tab.redo[Len(tab.redo)].action_type = "edit_cell"
                  THEN tab.modified \cup {tab.redo[Len(tab.redo)].cell_position[1]}
                  ELSE tab.modified]

\* the tables loaded: none of more than MaxUndoRows rows; the cells are texts,
\* and a number as read_csv gives it
UndoTables ==
    {t \in {<<>>, <<NumVal(1)>>, <<StrCell(<<"N">>), EmptyCell>>} : Len(t) <= MaxUndoRows}

\* the texts typed into a cell, pasted as a line, searched and put in place
UndoTexts == {<<>>, <<"N">>, <<"1">>}

PasteLines == SeqsOf({<<>>, <<"N">>}, 1, 2)

SearchTexts == {<<"n">>, <<"1">>}

NewTexts == {<<"N">>, <<"b">>}

UndoInit ==
    /\ table_target = <<>>
    /\ undo_stack = <<>> /\ redo_stack = <<>> /\ modified_cells = {}
    /\ selected_indexes = {} /\ action_contents = NoContents
    /\ table_source = <<>> /\ chunk_size = 1
    /\ json_chunks = <<>> /\ opt_chunks = <<>> /\ w_chunks = <<>>
    /\ row_mapping = <<>> /\ built = {}
    /\ ParseOff /\ EngineOff /\ BatchOff /\ WorkerOff /\ ContextOff /\ HistoryOff
    /\ LateOff

notUndo == <<parseVars, engineVars, batchVars, workerVars, contextVars, historyVars, lateVars,
            table_source, chunk_size, json_chunks, opt_chunks, w_chunks, row_mapping,
            built>>

UndoRows == 0..(Len(table_target) - 1)

\* actions that add an undo state are followed while the stack is short
Shallow == Len(undo_stack) < MaxUndoDepth

\* the table becomes tab; recorded: the action has added an undo state
Becomes(tab, recorded) ==
    /\ table_target' = tab.data
    /\ undo_stack' = tab.undo
    /\ redo_stack' = tab.redo
    /\ modified_cells' = tab.modified
    /\ action_contents' =
          IF recorded
          THEN [undo |-> add_undo_state(action_contents.undo,
                                        [before |-> table_target, after |-> tab.data]),
                redo |-> <<>>, last |-> "action"]
          ELSE [action_contents EXCEPT !.last = "call"]

\* EnhancedPandasModel.updateSelection
updateSelection ==
    /\ \E rows \in SUBSET UndoRows : selected_indexes' = rows
    /\ selected_indexes' # selected_indexes
    /\ action_contents' = [action_contents EXCEPT !.last = "call"]
    /\ UNCHANGED <<notUndo, table_target, undo_stack, redo_stack, modified_cells>>

\* a cell edited in the view: setData with the text typed
edit_cell ==
    /\ Shallow
    /\ \E row \in UndoRows, text \in UndoTexts :
          Becomes(setData(Table, row, StrCell(text)),
                  ~SameStr(table_target[row + 1], StrCell(text)))
    /\ UNCHANGED <<notUndo, selected_indexes>>

cut_selection ==
    /\ Shallow
    /\ \E rows \in SUBSET UndoRows : Becomes(cutSelectedData(Table, rows), rows # {})
    /\ UNCHANGED <<notUndo, selected_indexes>>

delete_selection ==
    /\ Shallow
    /\ \E rows \in SUBSET UndoRows : Becomes(deleteSelectedData(Table, rows), rows # {})
    /\ UNCHANGED <<notUndo, selected_indexes>>

paste ==
    /\ Shallow
    /\ \E start_row \in 0..MaxUndoRows, lines \in PasteLines :
          Becomes(pasteData(Table, start_row, lines), TRUE)
    /\ UNCHANGED <<notUndo, selected_indexes>>

\* replace, called while the selected indexes are cells of the table
replace_text ==
    /\ Shallow
    /\ selected_indexes \subseteq UndoRows
    /\ \E old_text \in SearchTexts, new_text \in NewTexts,
          case_sensitive \in BOOLEAN, whole_words \in BOOLEAN, selected_only \in BOOLEAN :
          Becomes(replace(Table, cells_to_check(table_target, selected_only,
                                                selected_indexes),
                          old_text, new_text, case_sensitive, whole_words),
                  ReplacedRows(table_target,
                               cells_to_check(table_target, selected_only,
                                              selected_indexes),
                               old_text, case_sensitive, whole_words) # {})
    /\ UNCHANGED <<notUndo, selected_indexes>>

\* a file loaded into the model
load_data ==
    /\ Shallow
    /\ \E dataframe \in UndoTables :
          Becomes(setDataFrame(Table, dataframe), table_target # <<>>)
    /\ selected_indexes' = {}
    /\ UNCHANGED notUndo

\* undo() on the model and the history variable
Undoes ==
    /\ undo_stack # <<>>
    /\ table_target' = undo_of(Table).data
    /\ undo_stack' = undo_of(Table).undo
    /\ redo_stack' = undo_of(Table).redo
    /\ modified_cells' = undo_of(Table).modified
    /\ action_contents' =
          [undo |-> SubSeq(action_contents.undo, 1, Len(action_contents.undo) - 1),
           redo |-> Append(action_contents.redo,
                           action_contents.undo[Len(action_contents.undo)]),
           last |-> "undo"]

\* redo() on the model and the history variable
Redoes ==
    /\ redo_stack # <<>>
    /\ table_target' = redo_of(Table).data
    /\ undo_stack' = redo_of(Table).undo
    /\ redo_stack' = redo_of(Table).redo
    /\ modified_cells' = redo_of(Table).modified
    /\ action_contents' =
          [undo |-> Append(action_contents.undo,
                           action_contents.redo[Len(action_contents.redo)]),
           redo |-> SubSeq(action_contents.redo, 1, Len(action_contents.redo) - 1),
           last |-> "redo"]

undo ==
    /\ Undoes
    /\ UNCHANGED <<notUndo, selected_indexes>>

redo ==
    /\ Redoes
    /\ UNCHANGED <<notUndo, selected_indexes>>

UndoNext ==
    \/ updateSelection
    \/ edit_cell
    \/ cut_selection
    \/ delete_selection
    \/ paste
    \/ replace_text
    \/ load_data
    \/ undo
    \/ redo

UndoSpec == UndoInit /\ [][UndoNext]_vars

\* an undo step, a redo step
UndoStep == action_contents'.last = "undo"

RedoStep == action_contents'.last = "redo"

UndoRedoRestores ==
    /\ UndoStep =>
          table_target' = action_contents.undo[Len(action_contents.undo)].before
    /\ RedoStep =>
          table_target' = action_contents.redo[Len(action_contents.redo)].after

\* C20: for every action on the undo stack (cell edit, paste, replace, cut,
\* delete, data load), undo() puts the table data back to its content just
\* before the action, and a redo() of the action to its content just after it.
C20_UndoRedoRestores == [][UndoRedoRestores]_vars

\* ------------------------------------------------------------------------
\* CapSpec: the undo stacks of EnhancedPandasModel and of AppState filled to
\* their limit. A stack is filled by one kind of step (the cell of a table of
\* one row edited to and fro; AppState handed the states of MaxAppStates rows
\* in turn), and up to MaxCapWalk steps of any kind are followed from every
\* level of the filling.
\* ------------------------------------------------------------------------

AppMaxUndoStates == 50

\* AppState.add_undo_state on the undo stack
app_add_undo_state(stack, state) ==
    IF Len(stack) + 1 > AppMaxUndoStates THEN Tail(Append(stack, state))
    ELSE Append(stack, state)

\* the states handed to AppState: the edit of a cell of row r
AppStateOf(r) ==
    UndoRedoState("edit_cell", <<r>>, StrCell(<<>>), StrCell(<<"N">>), <<>>, <<>>)

AppStates == {AppStateOf(r) : r \in 0..(MaxAppStates - 1)}

\* the state whose turn it is while the stack of AppState is filled
NextAppState ==
    IF app_undo_stack = <<>> THEN AppStateOf(0)
    ELSE AppStateOf((app_undo_stack[Len(app_undo_stack)].cell_position[1] + 1)
                       % MaxAppStates)

CapTexts == {<<>>, <<"N">>}

CapInit ==
    /\ table_target = <<>>
    /\ undo_stack = <<>> /\ redo_stack = <<>> /\ modified_cells = {}
    /\ selected_indexes = {} /\ action_contents = NoContents
    /\ table_source = <<>> /\ chunk_size = 1
    /\ json_chunks = <<>> /\ opt_chunks = <<>> /\ w_chunks = <<>>
    /\ row_mapping = <<>> /\ built = {}
    /\ app_undo_stack = <<>> /\ app_redo_stack = <<>> /\ cap_walk = 0
    /\ ParseOff /\ EngineOff /\ BatchOff /\ WorkerOff /\ ContextOff /\ HistoryOff
    /\ RestOff

notCap == <<parseVars, engineVars, batchVars, workerVars, contextVars, historyVars, restVars,
           table_source, chunk_size, json_chunks, opt_chunks, w_chunks, row_mapping,
           built>>

\* the two objects share nothing: the model is followed once AppState is at
\* rest (not used, or filled past its limit), AppState while the model is not used
AppAtRest ==
    \/ app_undo_stack = <<>> /\ app_redo_stack = <<>>
    \/ /\ Len(app_undo_stack) = AppMaxUndoStates /\ app_redo_stack = <<>>
       /\ app_undo_stack[1] # AppStateOf(0)

ModelUnused == table_target = <<>> /\ undo_stack = <<>> /\ redo_stack = <<>>

\* a step of the filling is free, any other step is counted
Step(filling) ==
    IF filling THEN UNCHANGED cap_walk
    ELSE cap_walk < MaxCapWalk /\ cap_walk' = cap_walk + 1

\* the first file loaded into the model, any later one
cap_load_data ==
    /\ AppAtRest
    /\ Becomes(setDataFrame(Table, <<EmptyCell>>), table_target # <<>>)
    /\ selected_indexes' = {}
    /\ Step(ModelUnused /\ cap_walk = 0)
    /\ UNCHANGED <<notCap, app_undo_stack, app_redo_stack>>

cap_edit_cell ==
    /\ AppAtRest
    /\ table_target # <<>>
    /\ \E text \in CapTexts :
          /\ Becomes(setData(Table, 0, StrCell(text)),
                     ~SameStr(table_target[1], StrCell(text)))
          /\ Step(/\ cap_walk = 0 /\ redo_stack = <<>>
                  /\ ~SameStr(table_target[1], StrCell(text)))
    /\ UNCHANGED <<notCap, selected_indexes, app_undo_stack, app_redo_stack>>

cap_cut ==
    /\ AppAtRest
    /\ \E rows \in SUBSET UndoRows : Becomes(cutSelectedData(Table, rows), rows # {})
    /\ Step(FALSE)
    /\ UNCHANGED <<notCap, selected_indexes, app_undo_stack, app_redo_stack>>

cap_delete ==
    /\ AppAtRest
    /\ \E rows \in SUBSET UndoRows : Becomes(deleteSelectedData(Table, rows), rows # {})
    /\ Step(FALSE)
    /\ UNCHANGED <<notCap, selected_indexes, app_undo_stack, app_redo_stack>>

cap_paste ==
    /\ AppAtRest
    /\ Becomes(pasteData(Table, 0, << <<"N">> >>), TRUE)
    /\ Step(FALSE)
    /\ UNCHANGED <<notCap, selected_indexes, app_undo_stack, app_redo_stack>>

cap_replace ==
    /\ AppAtRest
    /\ Becomes(replace(Table, UndoRows, <<"n">>, <<"b">>, FALSE, FALSE),
               ReplacedRows(table_target, UndoRows, <<"n">>, FALSE, FALSE) # {})
    /\ Step(FALSE)
    /\ UNCHANGED <<notCap, selected_indexes, app_undo_stack, app_redo_stack>>

cap_undo ==
    /\ AppAtRest
    /\ Undoes
    /\ Step(FALSE)
    /\ UNCHANGED <<notCap, selected_indexes, app_undo_stack, app_redo_stack>>

cap_redo ==
    /\ AppAtRest
    /\ Redoes
    /\ Step(FALSE)
    /\ UNCHANGED <<notCap, selected_indexes, app_undo_stack, app_redo_stack>>

notAppState == <<notCap, table_target, undo_stack, redo_stack, modified_cells,
                selected_indexes, action_contents>>

\* AppState.add_undo_state
AppState_add_undo_state ==
    /\ ModelUnused
    /\ \E state \in AppStates :
          /\ app_undo_stack' = app_add_undo_state(app_undo_stack, state)
          /\ Step(cap_walk = 0 /\ app_redo_stack = <<>> /\ state = NextAppState)
    /\ app_redo_stack' = <<>>
    /\ UNCHANGED notAppState

\* AppState.get_undo_state
get_undo_state ==
    /\ ModelUnused
    /\ IF app_undo_stack # <<>>
       THEN /\ app_undo_stack' = SubSeq(app_undo_stack, 1, Len(app_undo_stack) - 1)
            /\ app_redo_stack' = Append(app_redo_stack,
                                        app_undo_stack[Len(app_undo_stack)])
       ELSE UNCHANGED <<app_undo_stack, app_redo_stack>>
    /\ Step(FALSE)
    /\ UNCHANGED notAppState

\* AppState.get_redo_state
get_redo_state ==
    /\ ModelUnused
    /\ IF app_redo_stack # <<>>
       THEN /\ app_redo_stack' = SubSeq(app_redo_stack, 1, Len(app_redo_stack) - 1)
            /\ app_undo_stack' = Append(app_undo_stack,
                                        app_redo_stack[Len(app_redo_stack)])
       ELSE UNCHANGED <<app_undo_stack, app_redo_stack>>
    /\ Step(FALSE)
    /\ UNCHANGED notAppState

CapNext ==
    \/ cap_load_data
    \/ cap_edit_cell
    \/ cap_cut
    \/ cap_delete
    \/ cap_paste
    \/ cap_replace
    \/ cap_undo
    \/ cap_redo
    \/ AppState_add_undo_state
    \/ get_undo_state
    \/ get_redo_state

CapSpec == CapInit /\ [][CapNext]_vars

\* the stack after a state was added to it: the oldest state has gone when the
\* stack was full, the others are below the new one
AddedTo(stack, after, limit) ==
    /\ after # <<>>
    /\ SubSeq(after, 1, Len(after) - 1) = IF Len(stack) >= limit THEN Tail(stack) ELSE stack

\* a step of get_undo_state or get_redo_state on the stacks of AppState
AppMoved ==
    \/ /\ app_undo_stack # <<>>
       /\ app_undo_stack' = SubSeq(app_undo_stack, 1, Len(app_undo_stack) - 1)
       /\ app_redo_stack' = Append(app_redo_stack, app_undo_stack[Len(app_undo_stack)])
    \/ /\ app_redo_stack # <<>>
       /\ app_redo_stack' = SubSeq(app_redo_stack, 1, Len(app_redo_stack) - 1)
       /\ app_undo_stack' = Append(app_undo_stack, app_redo_stack[Len(app_redo_stack)])

UndoStacksKept ==
    /\ Len(undo_stack') <= MaxUndoStates
    /\ action_contents'.last = "action" =>
          redo_stack' = <<>> /\ AddedTo(undo_stack, undo_stack', MaxUndoStates)
    /\ Len(app_undo_stack') <= AppMaxUndoStates
    /\ <<app_undo_stack, app_redo_stack>>' # <<app_undo_stack, app_redo_stack>> =>
          \/ AppMoved
          \/ app_redo_stack' = <<>>
                /\ AddedTo(app_undo_stack, app_undo_stack', AppMaxUndoStates)

\* C21: whatever the edits, pastes, cuts, deletes, replaces, data loads, undos
\* and redos, the undo stack of the model holds at most 50 states, a newly
\* recorded action drops the oldest state of a full stack and leaves the redo
\* stack empty; the stacks of AppState keep the same for max_undo_states.
C21_UndoStacksKept == [][UndoStacksKept]_vars

\* C21, its case: both stacks are full and have lost their oldest state, and
\* the model has just recorded a cut on its full stack
C21_Witness ==
    /\ Len(undo_stack) = MaxUndoStates
    /\ undo_stack[1].old_value = StrCell(<<"N">>)
    /\ undo_stack[MaxUndoStates].action_type = "cut_data"
    /\ action_contents.last = "action"
    /\ Len(app_undo_stack) = AppMaxUndoStates
    /\ app_undo_stack[1] # AppStateOf(0)

\* ------------------------------------------------------------------------
\* Properties of the cells the worker of translate_current_file writes
\* ------------------------------------------------------------------------

\* the table rows (counted from 0) of the texts of the chunk at position i
ChunkRowsOf(i) ==
    {row_mapping[k + 1] : k \in {k \in w_chunks[i].start_row..w_chunks[i].end_row :
                                   k < Len(row_mapping)}}

\* the rows whose target cell the step has changed
WrittenRows == {r \in 0..(Len(table_target) - 1) : table_target'[r + 1] # table_target[r + 1]}

WritesOwnRows ==
    w_pc = "loop" =>
       /\ WrittenRows \subseteq ChunkRowsOf(w_i)
       /\ \A r \in WrittenRows : UiKeep(table_source[r + 1])

\* C22: a round of the worker of translate_current_file changes target cells
\* only in the rows of the chunk it has translated, all of them rows with a
\* non-blank source text, whatever the number of items of the answer.
C22_WritesOwnRows == [][WritesOwnRows]_vars

\* ------------------------------------------------------------------------
\* AutosaveSpec: AutoSaveManager, the providers of the window, the snapshot
\* file and the recovery at the next start

\* AppState.chunk_size of a new AppState
AppChunkSize == 50

\* the chunk sizes chosen in the window
ChosenChunkSizes == {1}

\* the methods of EnhancedPandasModel that hand out or take the DataFrame
ModelMethods == {"getDataFrame", "setDataFrame"}

\* hasattr(self.table_model, name)
hasattr_table_model(name) == name \in ModelMethods

\* a dict a provider returns: its keys, and the values followed
Dict(keys, dataframe_json, size) ==
    [keys |-> keys, dataframe_json |-> dataframe_json, chunk_size |-> size]

EmptyDict == Dict({}, <<>>, <<>>)

\* df.to_json(orient="split") of the one-column table
to_json(data) == [index |-> [i \in 1..Len(data) |-> i - 1], data |-> data]

\* pd.read_json(df_json, orient="split")
read_json(df_json) == df_json.data

\* MainWindow.get_table_data_for_autosave
get_table_data_for_autosave ==
    IF ~hasattr_table_model("get_dataframe") THEN EmptyDict
    ELSE IF table_target # <<>>
         THEN Dict({"dataframe_json", "current_file", "file_index"},
                   <<to_json(table_target)>>, <<>>)
         ELSE EmptyDict

\* MainWindow.get_project_state_for_autosave
get_project_state_for_autosave ==
    Dict({"input_directory", "output_directory", "history_file", "current_model",
          "target_column", "chunk_size", "sleep_time"}, <<>>, <<app_chunk_size>>)

\* MainWindow.get_ui_state_for_autosave
get_ui_state_for_autosave ==
    Dict({"current_cell", "selected_cells", "scroll_position", "column_widths",
          "settings_visible"}, <<>>, <<>>)

\* the providers of the window, and three more: one that returns a dict, one
\* that returns None, one that raises
WindowProviders ==
    [table_data |-> "get_table_data_for_autosave",
     ui_state |-> "get_ui_state_for_autosave",
     project_state |-> "get_project_state_for_autosave"]

OtherProviders == {"returns_dict", "returns_none", "raises"}

\* provider(): whether it raised, and the data it returned (<<>> for None)
Provide(provider) ==
    IF provider = "get_table_data_for_autosave"
    THEN [raised |-> FALSE, data |-> <<get_table_data_for_autosave>>]
    ELSE IF provider = "get_ui_state_for_autosave"
    THEN [raised |-> FALSE, data |-> <<get_ui_state_for_autosave>>]
    ELSE IF provider = "get_project_state_for_autosave"
    THEN [raised |-> FALSE, data |-> <<get_project_state_for_autosave>>]
    ELSE IF provider = "returns_dict"
    THEN [raised |-> FALSE, data |-> <<Dict({"extra"}, <<>>, <<>>)>>]
    ELSE IF provider = "returns_none"
    THEN [raised |-> FALSE, data |-> <<>>]
    ELSE [raised |-> TRUE, data |-> <<>>]

Registered == {name \in ProviderNames : data_providers[name] # <<>>}

\* the providers whose call raised in the loop of _auto_save
FailedProviders == {name \in Registered : Provide(data_providers[name][1]).raised}

\* save_data["data"] after the loop of _auto_save
CollectedData ==
    [name \in ProviderNames |->
        IF name \in Registered /\ name \notin FailedProviders
        THEN Provide(data_providers[name][1]).data ELSE <<>>]

\* the content of the file: whole after json.dump returned, cut when it raised
Snapshot(data, whole) == [data |-> data, whole |-> whole]

\* how open() and json.dump of _auto_save end
WriteOutcomes == {"ok", "open_fails", "dump_fails"}

TickLog(collected, failed, wrote, write_failed, emitted) ==
    [op |-> "tick", collected |-> collected, failed |-> failed, wrote |-> wrote,
     write_failed |-> write_failed, emitted |-> emitted]

Log(op) == [NoLog EXCEPT !.op = op]

AutosaveInit ==
    /\ is_dirty = FALSE /\ data_providers = NoProviders /\ autosave_file = <<>>
    /\ app_chunk_size = AppChunkSize /\ autosave_log = NoLog
    /\ table_target = <<>>
    /\ undo_stack = <<>> /\ redo_stack = <<>> /\ modified_cells = {}
    /\ selected_indexes = {} /\ action_contents = NoContents
    /\ table_source = <<>> /\ chunk_size = 1
    /\ json_chunks = <<>> /\ opt_chunks = <<>> /\ w_chunks = <<>>
    /\ row_mapping = <<>> /\ built = {}
    /\ ParseOff /\ EngineOff /\ BatchOff /\ WorkerOff /\ ContextOff /\ HistoryOff
    /\ CapOff /\ ServiceOff /\ ApiOff /\ SummaryOff /\ ProjectOff

notAutosave == <<parseVars, engineVars, batchVars, workerVars, contextVars, historyVars,
                capVars, serviceVars, apiVars, summaryVars, projectVars, table_source, chunk_size, json_chunks, opt_chunks, w_chunks,
                row_mapping, built>>

modelVars == <<table_target, undo_stack, redo_stack, modified_cells, selected_indexes,
               action_contents>>

\* AutoSaveManager.mark_dirty, called by MainWindow.on_chunk_size_changed
on_chunk_size_changed ==
    /\ \E size \in ChosenChunkSizes : app_chunk_size' = size
    /\ is_dirty' = TRUE
    /\ autosave_log' = Log("mark_dirty")
    /\ UNCHANGED <<notAutosave, modelVars, data_providers, autosave_file>>

\* AutoSaveManager.mark_clean
mark_clean ==
    /\ is_dirty' = FALSE
    /\ autosave_log' = Log("mark_clean")
    /\ UNCHANGED <<notAutosave, modelVars, data_providers, autosave_file, app_chunk_size>>

\* the three registrations of MainWindow.setup_storage_managers
Setup(providers) ==
    [name \in ProviderNames |->
        IF name \in DOMAIN WindowProviders THEN <<WindowProviders[name]>>
        ELSE providers[name]]

\* MainWindow.setup_storage_managers
setup_storage_managers ==
    /\ data_providers' = Setup(data_providers)
    /\ autosave_log' = Log("setup")
    /\ UNCHANGED <<notAutosave, modelVars, is_dirty, autosave_file, app_chunk_size>>

\* AutoSaveManager.register_data_provider
register_data_provider ==
    /\ \E provider \in OtherProviders :
          data_providers' = [data_providers EXCEPT !["extra"] = <<provider>>]
    /\ autosave_log' = Log("register")
    /\ UNCHANGED <<notAutosave, modelVars, is_dirty, autosave_file, app_chunk_size>>

\* AutoSaveManager.unregister_data_provider
unregister_data_provider ==
    /\ \E name \in ProviderNames :
          data_providers' = [data_providers EXCEPT ![name] = <<>>]
    /\ autosave_log' = Log("unregister")
    /\ UNCHANGED <<notAutosave, modelVars, is_dirty, autosave_file, app_chunk_size>>

\* the file after the "with open(...)" block of _auto_save
Written(outcome) ==
    IF outcome = "open_fails" THEN autosave_file
    ELSE <<Snapshot(CollectedData, outcome = "ok")>>

\* AutoSaveManager._auto_save, the slot of the timer
auto_save ==
    /\ \E outcome \in WriteOutcomes :
          IF ~is_dirty \/ Registered = {}
          THEN /\ autosave_log' = TickLog({}, {}, FALSE, FALSE, FALSE)
               /\ UNCHANGED <<is_dirty, autosave_file>>
          ELSE /\ autosave_file' = Written(outcome)
               /\ is_dirty' = (outcome # "ok")
               /\ autosave_log' =
                     TickLog({name \in ProviderNames : CollectedData[name] # <<>>},
                             FailedProviders, outcome = "ok", outcome # "ok",
                             outcome = "ok")
    /\ UNCHANGED <<notAutosave, modelVars, data_providers, app_chunk_size>>

\* a file is opened in the window: EnhancedPandasModel.setDataFrame (followed
\* while the undo stack is empty)
open_file ==
    /\ undo_stack = <<>>
    /\ \E dataframe \in UndoTables \ {<<>>} :
          Becomes(setDataFrame(Table, dataframe), table_target # <<>>)
    /\ selected_indexes' = {}
    /\ autosave_log' = Log("open_file")
    /\ UNCHANGED <<notAutosave, is_dirty, data_providers, autosave_file, app_chunk_size>>

\* the program ends and is started again: a new window, model and manager;
\* MainWindow.__init__ calls setup_storage_managers
restart ==
    /\ is_dirty' = FALSE
    /\ data_providers' = Setup(NoProviders)
    /\ app_chunk_size' = AppChunkSize
    /\ table_target' = <<>> /\ undo_stack' = <<>> /\ redo_stack' = <<>>
    /\ modified_cells' = {} /\ selected_indexes' = {} /\ action_contents' = NoContents
    /\ autosave_log' = Log("restart")
    /\ UNCHANGED <<notAutosave, autosave_file>>

\* AutoSaveManager.check_for_recovery: the content when the file is there and
\* json.load reads it
check_for_recovery ==
    IF autosave_file # <<>> /\ autosave_file[1].whole THEN autosave_file ELSE <<>>

\* the project state part of recover_session
RecoveredChunkSize(data) ==
    IF data["project_state"] # <<>> THEN data["project_state"][1].chunk_size[1]
    ELSE app_chunk_size

\* the table part of recover_session: the DataFrame it sets, if any
RecoveredTable(data) ==
    IF data["table_data"] # <<>> /\ data["table_data"][1].dataframe_json # <<>>
    THEN <<read_json(data["table_data"][1].dataframe_json[1])>>
    ELSE <<>>

\* MainWindow.check_recovery_on_startup, answered Yes: recover_session
recover_session ==
    /\ autosave_log.op = "restart"
    /\ check_for_recovery # <<>>
    /\ app_chunk_size' = RecoveredChunkSize(check_for_recovery[1].data)
    /\ IF RecoveredTable(check_for_recovery[1].data) # <<>>
       THEN /\ Becomes(setDataFrame(Table, RecoveredTable(check_for_recovery[1].data)[1]),
                       table_target # <<>>)
            /\ UNCHANGED selected_indexes
       ELSE UNCHANGED modelVars
    /\ autosave_log' = Log("recover")
    /\ UNCHANGED <<notAutosave, is_dirty, data_providers, autosave_file>>

\* MainWindow.check_recovery_on_startup, answered No: clear_recovery_data
clear_recovery_data ==
    /\ autosave_log.op = "restart"
    /\ check_for_recovery # <<>>
    /\ autosave_file' = <<>>
    /\ autosave_log' = Log("clear")
    /\ UNCHANGED <<notAutosave, modelVars, is_dirty, data_providers, app_chunk_size>>

AutosaveNext ==
    \/ on_chunk_size_changed
    \/ mark_clean
    \/ setup_storage_managers
    \/ register_data_provider
    \/ unregister_data_provider
    \/ auto_save
    \/ open_file
    \/ restart
    \/ recover_session
    \/ clear_recovery_data

AutosaveSpec == AutosaveInit /\ [][AutosaveNext]_vars

\* C23: when a snapshot is written while a table is loaded and the window's
\* provider is registered, the table_data entry of the snapshot holds the
\* current data of the table, so that recover_session sets it again
C23_SnapshotHoldsTable ==
    (/\ autosave_log.op = "tick" /\ autosave_log.wrote
     /\ table_target # <<>>
     /\ data_providers["table_data"] = <<"get_table_data_for_autosave">>)
    => /\ autosave_file # <<>>
       /\ RecoveredTable(autosave_file[1].data) = <<table_target>>

\* a step of _auto_save
TickStep == autosave_log'.op = "tick"

TickOutcome ==
    TickStep =>
        /\ (~is_dirty \/ Registered = {}) =>
              /\ UNCHANGED <<is_dirty, autosave_file, data_providers>>
              /\ ~autosave_log'.wrote /\ ~autosave_log'.emitted
        /\ autosave_log'.wrote => ~is_dirty' /\ autosave_log'.emitted
        /\ (autosave_log'.failed # {} \/ autosave_log'.write_failed) => is_dirty'

\* C24: a tick that finds nothing dirty or no provider writes nothing and
\* changes nothing; a tick that wrote the file has cleared is_dirty and emitted
\* auto_saved; after a tick on which a provider or the write failed, is_dirty
\* is still True
C24_TickOutcome == [][TickOutcome]_vars

\* ------------------------------------------------------------------------
\* ServiceSpec: the services and the API keys of APIServiceManager

\* the keys of PREDEFINED_SERVICES
PredefinedIds == {"google_gemini", "openai_gpt", "anthropic_claude"}

\* the ids a service is added, removed or given a key under
ServiceIds == PredefinedIds \cup {"my_service"}

\* APIEndpointConfig.retry_count and retry_delay of a new endpoint
DefaultRetryCount == 3

DefaultRetryDelay == 2

\* APIServiceConfig: the fields followed
APIServiceConfig(id, is_custom, retries, delay) ==
    [id |-> id, is_custom |-> is_custom, retry_count |-> retries, retry_delay |-> delay]

\* PREDEFINED_SERVICES
PREDEFINED_SERVICES ==
    [id \in ServiceIds |->
        IF id \in PredefinedIds
        THEN <<APIServiceConfig(id, FALSE, DefaultRetryCount, DefaultRetryDelay)>>
        ELSE <<>>]

NoKeys == [id \in ServiceIds |-> <<>>]

NoServices == [id \in ServiceIds |-> <<>>]

\* EncryptionManager.encrypt: "" for no text, else the cipher text of it
encrypt(plaintext) == IF plaintext = <<>> THEN <<>> ELSE <<"E">> \o plaintext

\* EncryptionManager.decrypt
decrypt(encrypted_text) == IF encrypted_text = <<>> THEN <<>> ELSE Tail(encrypted_text)

\* the keys typed into the panel
ApiKeyTexts == {<<>>, <<"k">>}

\* APIServiceManager._initialize_predefined_services when nothing was loaded
Loaded(file) == IF file = <<>> \/ file[1] = NoServices THEN PREDEFINED_SERVICES ELSE file[1]

ServiceLog(op, service_id, returned) ==
    [op |-> op, service_id |-> service_id, returned |-> returned]

\* APIServiceManager.__init__ in a directory without files
ServiceInit ==
    /\ services = PREDEFINED_SERVICES /\ api_keys = NoKeys
    /\ services_file = <<PREDEFINED_SERVICES>> /\ keys_file = <<>>
    /\ service_log = NoServiceLog
    /\ ParseOff /\ EngineOff /\ BatchOff /\ TableOff /\ WorkerOff /\ ContextOff
    /\ HistoryOff /\ UndoOff /\ CapOff /\ AutosaveOff /\ ApiOff /\ SummaryOff /\ ProjectOff

notService == <<parseVars, engineVars, batchVars, tableVars, workerVars, contextVars,
                historyVars, undoVars, capVars, autosaveVars, apiVars, summaryVars,
                projectVars>>

\* APIServiceManager.add_service
add_service ==
    /\ \E id \in ServiceIds, is_custom \in BOOLEAN :
          /\ services' = [services EXCEPT ![id] =
                 <<APIServiceConfig(id, is_custom, DefaultRetryCount, DefaultRetryDelay)>>]
          /\ service_log' = ServiceLog("add_service", id, TRUE)
    /\ services_file' = <<services'>>
    /\ UNCHANGED <<notService, api_keys, keys_file>>

\* whether remove_service removes the service
Removes(service_id) ==
    /\ service_id \in ServiceIds
    /\ services[service_id] # <<>>
    /\ services[service_id][1].is_custom

\* the ids remove_service is called with: the known ids and one more
RemovedIds == ServiceIds \cup {"unknown"}

\* APIServiceManager.remove_service
remove_service ==
    /\ \E service_id \in RemovedIds :
          IF Removes(service_id)
          THEN /\ services' = [services EXCEPT ![service_id] = <<>>]
               /\ api_keys' = [api_keys EXCEPT ![service_id] = <<>>]
               /\ keys_file' = IF api_keys[service_id] # <<>> THEN <<api_keys'>>
                               ELSE keys_file
               /\ services_file' = <<services'>>
               /\ service_log' = ServiceLog("remove_service", service_id, TRUE)
          ELSE /\ service_log' = ServiceLog("remove_service", service_id, FALSE)
               /\ UNCHANGED <<services, api_keys, services_file, keys_file>>
    /\ UNCHANGED notService

\* APIServiceManager.set_api_key
service_set_api_key ==
    /\ \E service_id \in ServiceIds, api_key \in ApiKeyTexts :
          /\ api_keys' = [api_keys EXCEPT ![service_id] = <<encrypt(api_key)>>]
          /\ service_log' = ServiceLog("set_api_key", service_id, TRUE)
    /\ keys_file' = <<api_keys'>>
    /\ UNCHANGED <<notService, services, services_file>>

\* the program is started again: load_services, load_api_keys and the
\* predefined services when none was loaded
load_configuration ==
    /\ services' = Loaded(services_file)
    /\ services_file' = IF services_file[1] = NoServices THEN <<PREDEFINED_SERVICES>>
                        ELSE services_file
    /\ api_keys' = IF keys_file = <<>> THEN NoKeys ELSE keys_file[1]
    /\ service_log' = ServiceLog("init", "", TRUE)
    /\ UNCHANGED <<notService, keys_file>>

ServiceNext ==
    \/ add_service
    \/ remove_service
    \/ service_set_api_key
    \/ load_configuration

ServiceSpec == ServiceInit /\ [][ServiceNext]_vars

\* a step of remove_service
RemoveStep == service_log'.op = "remove_service"

RemoveKeepsPredefined ==
    RemoveStep =>
        /\ service_log'.service_id \in PredefinedIds =>
              /\ ~service_log'.returned
              /\ UNCHANGED <<services, api_keys>>
        /\ (/\ service_log'.service_id \in ServiceIds \ PredefinedIds
            /\ services[service_log'.service_id] # <<>>
            /\ services[service_log'.service_id][1].is_custom) =>
              /\ service_log'.returned
              /\ services' = [services EXCEPT ![service_log'.service_id] = <<>>]
              /\ api_keys' = [api_keys EXCEPT ![service_log'.service_id] = <<>>]

\* C25: remove_service called with the id of a predefined service
\* (google_gemini, openai_gpt, anthropic_claude) returns False and leaves
\* services and api_keys as they were; called with the id of a custom service
\* it removes the service and its stored API key, and nothing else
C25_RemoveKeepsPredefined == [][RemoveKeepsPredefined]_vars

\* ------------------------------------------------------------------------
\* ApiSpec: APIServiceManager.call_api, one request of its loop at a time

\* the largest retry_count given to an endpoint
MaxApiRetries == 3

\* the ids call_api is called with
CalledIds == {"my_service", "google_gemini", "unknown"}

\* how requests.request and the reading of its response end: HTTP 200 with a
\* body _parse_response reads, HTTP 200 with a body it raises on, another
\* status, requests.exceptions.Timeout, any other exception of requests
RequestOutcomes == {"ok", "bad_body", "http_error", "timeout", "connection_error"}

Request(outcome) == [kind |-> "request", outcome |-> outcome, secs |-> 0]

Sleep(secs) == [kind |-> "sleep", outcome |-> "", secs |-> secs]

ApiInit ==
    /\ services = PREDEFINED_SERVICES /\ api_keys = NoKeys
    /\ services_file = <<PREDEFINED_SERVICES>> /\ keys_file = <<>>
    /\ service_log = NoServiceLog
    /\ api_pc = "idle" /\ api_call = NoCall /\ api_attempt = 0 /\ api_log = <<>>
    /\ api_result = NoResult
    /\ ParseOff /\ EngineOff /\ BatchOff /\ TableOff /\ WorkerOff /\ ContextOff
    /\ HistoryOff /\ UndoOff /\ CapOff /\ AutosaveOff /\ SummaryOff /\ ProjectOff

notApi == <<parseVars, engineVars, batchVars, tableVars, workerVars, contextVars,
            historyVars, undoVars, capVars, autosaveVars, summaryVars, projectVars>>

\* no call of call_api is under way
AtRest == api_pc \in {"idle", "done"}

\* add_service of a custom service with the retry_count chosen in the dialog
add_custom_service ==
    /\ AtRest
    /\ \E retries \in 0..MaxApiRetries :
          services' = [services EXCEPT !["my_service"] =
              <<APIServiceConfig("my_service", TRUE, retries, DefaultRetryDelay)>>]
    /\ services_file' = <<services'>>
    /\ service_log' = ServiceLog("add_service", "my_service", TRUE)
    /\ UNCHANGED <<notApi, apiVars, api_keys, keys_file>>

\* set_api_key from the panel
save_api_key ==
    /\ AtRest
    /\ \E service_id \in {"my_service", "google_gemini"}, api_key \in ApiKeyTexts :
          /\ api_keys' = [api_keys EXCEPT ![service_id] = <<encrypt(api_key)>>]
          /\ service_log' = ServiceLog("set_api_key", service_id, TRUE)
    /\ keys_file' = <<api_keys'>>
    /\ UNCHANGED <<notApi, apiVars, services, services_file>>

\* APIServiceManager.get_service: None is <<>>
get_service(service_id) ==
    IF service_id \in ServiceIds THEN services[service_id] ELSE <<>>

\* APIServiceManager.get_api_key: None is <<>>
get_api_key(service_id) ==
    IF service_id \in ServiceIds /\ api_keys[service_id] # <<>>
          /\ api_keys[service_id][1] # <<>>
    THEN <<decrypt(api_keys[service_id][1])>>
    ELSE <<>>

\* "if not api_key" of call_api
NoApiKey(service_id) == get_api_key(service_id) = <<>> \/ get_api_key(service_id)[1] = <<>>

\* the call is over
Returns(success) ==
    /\ api_pc' = "done"
    /\ api_result' = [success |-> success, raised |-> FALSE]

\* call_api up to its loop
call_api ==
    /\ AtRest
    /\ \E service_id \in CalledIds :
          IF get_service(service_id) = <<>> \/ NoApiKey(service_id)
          THEN /\ api_call' = [NoCall EXCEPT !.service_id = service_id]
               /\ Returns(FALSE)
          ELSE /\ api_call' = [service_id |-> service_id,
                               max_retries |-> get_service(service_id)[1].retry_count,
                               retry_delay |-> get_service(service_id)[1].retry_delay]
               /\ IF get_service(service_id)[1].retry_count <= 0
                  THEN Returns(FALSE)
                  ELSE api_pc' = "loop" /\ api_result' = NoResult
    /\ api_attempt' = 0 /\ api_log' = <<>>
    /\ UNCHANGED <<notApi, serviceVars>>

\* one round of the loop of call_api: the request, and the sleep after it
api_request ==
    /\ api_pc = "loop"
    /\ \E outcome \in RequestOutcomes :
          IF outcome = "ok"
          THEN /\ api_log' = Append(api_log, Request(outcome))
               /\ Returns(TRUE)
               /\ UNCHANGED api_attempt
          ELSE IF outcome \in {"http_error", "timeout"}
                  /\ api_attempt < api_call.max_retries - 1
          THEN /\ api_log' = api_log \o <<Request(outcome), Sleep(api_call.retry_delay)>>
               /\ api_attempt' = api_attempt + 1
               /\ UNCHANGED <<api_pc, api_result>>
          ELSE /\ api_log' = Append(api_log, Request(outcome))
               /\ Returns(FALSE)
               /\ UNCHANGED api_attempt
    /\ UNCHANGED <<notApi, serviceVars, api_call>>

ApiNext ==
    \/ add_custom_service
    \/ save_api_key
    \/ call_api
    \/ api_request

ApiSpec == ApiInit /\ [][ApiNext]_vars

\* the positions of the requests in the log
Requests == {i \in 1..Len(api_log) : api_log[i].kind = "request"}

\* the request at position i is the n-th of the call
Nth(i) == Cardinality({j \in Requests : j <= i})

\* the request got a response with status 200
Got200(i) == api_log[i].outcome \in {"ok", "bad_body"}

\* a failed request that is not the last one allowed is followed by a sleep of
\* retry_delay, and by a new request before the call is over
Retried(i) ==
    /\ i + 1 <= Len(api_log)
    /\ api_log[i + 1] = Sleep(api_call.retry_delay)
    /\ api_pc = "done" => i + 2 <= Len(api_log) /\ api_log[i + 2].kind = "request"

SummarizationThreshold == 20

\* the rows of the DataFrames handed to update_history_for_file
SummaryRows == {0, 1, 10}

\* add_translation_entry is followed this many times between two summaries
MaxEntryCalls == 1

\* the summaries of a history of 20 messages or more that are followed
MaxSummaries == 1

\* the translation_engine handed to summarize_history: none, one whose google
\* model answers, one whose google model raises, one without a google model
SummaryEngines == {"none", "google", "google_raises", "no_google"}

\* the human messages create_summary_from_history reads translations from
TranslationRequests(messages) ==
    SelectSeq(messages, LAMBDA m : m.role = "human" /\ Head(m.content) = "Translate to")

\* HistoryManager.create_summary_from_history, shortened to the number of
\* translations it found
create_summary_from_history(messages) ==
    IF TranslationRequests(messages) = <<>> THEN <<"no history">>
    ELSE <<"translations", ToString(Len(TranslationRequests(messages)))>>

\* summary_text of summarize_history
summary_text(messages, engine) ==
    IF engine = "google" THEN <<"response.content">>
    ELSE create_summary_from_history(messages)

\* summary_entry and response_entry of summarize_history
summary_entry(text) == [role |-> "user", content |-> <<"(TÓM TẮT)", WS>> \o text]

response_entry == [role |-> "ai", content |-> <<"understood">>]

\* recent_entries of summarize_history, with two messages instead of four
recent_entries_two(messages) ==
    IF Len(messages) >= 4 THEN SubSeq(messages, Len(messages) - 1, Len(messages)) ELSE <<>>

\* preserved_entries of summarize_history
preserved_entries(messages) == IF Len(messages) >= 2 THEN SubSeq(messages, 1, 2) ELSE <<>>

\* recent_entries of summarize_history
recent_entries(messages) ==
    IF Len(messages) >= 4 THEN SubSeq(messages, Len(messages) - 3, Len(messages)) ELSE <<>>

\* HistoryManager.should_summarize
should_summarize(messages) == Len(messages) >= SummarizationThreshold

\* HistoryManager.summarize_history: the messages afterwards
summarize_history(messages, engine) ==
    IF ~should_summarize(messages) THEN messages
    ELSE preserved_entries(messages)
            \o <<summary_entry(summary_text(messages, engine)), response_entry>>
            \o recent_entries(messages)

\* the roles _prepare_request makes a message of
ForwardedRoles == {"human", "ai", "assistant"}

\* _prepare_request: the content of the messages it makes of the chat history
ForwardedContent(msg) ==
    IF msg.role = "human" THEN msg.content
    ELSE <<"Previous AI response: ">> \o msg.content

recent_history(history) == SubSeq(history, Max(1, Len(history) - 9), Len(history))

prepared_history(history) ==
    [i \in 1..Len(SelectSeq(recent_history(history), LAMBDA m : m.role \in ForwardedRoles)) |->
        ForwardedContent(SelectSeq(recent_history(history),
                                   LAMBDA m : m.role \in ForwardedRoles)[i])]

HistoryLog(op, file_name, num_rows, size, returned) ==
    [op |-> op, file_name |-> file_name, num_rows |-> num_rows, size |-> size,
     returned |-> returned, summaries |-> history_log.summaries]

SummaryInit ==
    /\ chat_history = <<>>
    /\ history_file = ""
    /\ history_disk = NoFile
    /\ history_log = NoHistoryLog
    /\ w_i = 1 /\ w_pc = "off" /\ w_calls = <<>>
    /\ ParseOff /\ EngineOff /\ BatchOff /\ TableOff /\ ContextOff /\ UndoOff
    /\ CapOff /\ AutosaveOff /\ ServiceOff /\ ApiOff /\ ProjectOff

notSummary == <<parseVars, engineVars, batchVars, tableVars, contextVars, undoVars,
                capVars, autosaveVars, serviceVars, apiVars, projectVars, w_i, w_pc,
                w_calls>>

\* HistoryManager.set_history_file
choose_history_file ==
    /\ history_file = ""
    /\ history_file' = "history.json"
    /\ history_log' = HistoryLog("set_history_file", <<>>, 0, 0, TRUE)
    /\ UNCHANGED <<notSummary, chat_history, history_disk>>

\* HistoryManager.add_translation_entry, called by the worker after a chunk
record_translation ==
    /\ Len(TranslationRequests(chat_history)) < MaxEntryCalls
    /\ chat_history' = add_translation_entry(chat_history, <<<<"a">>>>, <<<<"a">>>>).history
    /\ history_log' = HistoryLog("add_translation_entry", <<>>, 0, 0, FALSE)
    /\ UNCHANGED <<notSummary, history_file, history_disk>>

\* HistoryManager.update_history_for_file
update_file_history ==
    /\ \E file_name \in HistoryFileNames, num_rows \in SummaryRows,
          size \in 1..MaxChunkSize, written \in BOOLEAN :
          IF num_rows = 0
          THEN /\ history_log' = HistoryLog("update", file_name, num_rows, size, FALSE)
               /\ UNCHANGED <<chat_history, history_disk>>
          ELSE /\ chat_history' = UpdatedMessages(chat_history, history_file, history_disk,
                                                  file_name, num_rows, size)
               /\ history_disk' = save_history(chat_history', history_file, history_disk,
                                               written).disk
               /\ history_log' =
                     HistoryLog("update", file_name, num_rows, size,
                                save_history(chat_history', history_file, history_disk,
                                             written).ok)
    /\ UNCHANGED <<notSummary, history_file>>

\* HistoryManager.summarize_history
summarize ==
    /\ should_summarize(chat_history) => history_log.summaries < MaxSummaries
    /\ \E engine \in SummaryEngines :
          chat_history' = summarize_history(chat_history, engine)
    /\ history_log' =
          [HistoryLog("summarize", <<>>, 0, 0, TRUE) EXCEPT
              !.summaries = IF should_summarize(chat_history) THEN @ + 1 ELSE @]
    /\ UNCHANGED <<notSummary, history_file, history_disk>>

SummaryNext ==
    \/ choose_history_file
    \/ record_translation
    \/ update_file_history
    \/ summarize

SummarySpec == SummaryInit /\ [][SummaryNext]_vars

\* a step of update_history_for_file on a DataFrame with rows
UpdateStep == history_log'.op = "update" /\ history_log'.num_rows > 0

\* msg_content is the request of a chunk of the file file_name
ChunkOf(msg_content, file_name) ==
    \E num_rows \in SummaryRows : \E k \in 0..num_rows :
        StartsWith(msg_content, <<"chunk_", ToString(k), "_">> \o file_name \o <<WS, ":", WS>>)

\* the message at position i belongs to the file: the request of one of its
\* chunks, or the answer that follows such a request
BelongsTo(messages, i, file_name) ==
    \/ messages[i].role = "human" /\ ChunkOf(messages[i].content, file_name)
    \/ /\ i > 1 /\ messages[i].role = "ai"
       /\ messages[i - 1].role = "human" /\ ChunkOf(messages[i - 1].content, file_name)

\* the messages that do not belong to the file, in their order
OthersOf(messages, file_name) ==
    [k \in 1..Len(SelectSeq(RowIndexes(messages),
                            LAMBDA i : ~BelongsTo(messages, i, file_name))) |->
        messages[SelectSeq(RowIndexes(messages),
                           LAMBDA i : ~BelongsTo(messages, i, file_name))[k]]]

\* the pairs of the blocks of the call
NewPairs == NewChunkMessages(build_chunks(history_log'.num_rows, history_log'.size),
                             history_log'.file_name)

ReplacesPairs ==
    UpdateStep =>
        /\ chat_history' = OthersOf(chat_history, history_log'.file_name) \o NewPairs
        /\ UpdatedMessages(chat_history', history_file', history_disk',
                           history_log'.file_name, history_log'.num_rows,
                           history_log'.size) = chat_history'

\* C27: update_history_for_file(f, df, chunk_size) leaves the messages that do
\* not belong to f, in their order, followed by one human/ai pair for every
\* block of chunk_size rows of df, and no older pair of f; the same call made
\* again leaves the same messages
C27_ReplacesPairs == [][ReplacesPairs]_vars

\* the message is a summary message of summarize_history
IsSummary(msg) == StartsWith(msg.content, <<"(TÓM TẮT)", WS>>)

\* the positions of the last 10 messages
LastTen == {i \in 1..Len(chat_history) : i > Len(chat_history) - 10}

\* C28: every message of the chat history has a role that _prepare_request
\* makes a message of (human, ai or assistant), and a summary message among
\* the last 10 messages is part of the messages of the next prompt
C28_RolesForwarded ==
    /\ \A i \in 1..Len(chat_history) : chat_history[i].role \in ForwardedRoles
    /\ \A i \in LastTen :
          IsSummary(chat_history[i]) =>
              \E k \in 1..Len(prepared_history(chat_history)) :
                  prepared_history(chat_history)[k] = chat_history[i].content

\* a step of summarize_history
SummarizeStep == history_log'.op = "summarize"

\* the messages of the step are the first 2, the summary, the acknowledgement
\* and the last 4 of the messages before it
Summarized ==
    /\ Len(chat_history') = 8
    /\ SubSeq(chat_history', 1, 2) = SubSeq(chat_history, 1, 2)
    /\ IsSummary(chat_history'[3])
    /\ chat_history'[4] = response_entry
    /\ SubSeq(chat_history', 5, 8) =
          SubSeq(chat_history, Len(chat_history) - 3, Len(chat_history))

SummarizesAtThreshold ==
    SummarizeStep =>
        IF Len(chat_history) < SummarizationThreshold
        THEN chat_history' = chat_history
        ELSE Summarized

\* C29: summarize_history leaves a history of fewer than 20 messages as it
\* is, and replaces a longer one by 8 messages: its first 2, the summary, the
\* acknowledgement, its last 4
C29_SummarizesAtThreshold == [][SummarizesAtThreshold]_vars

\* a history of 20 messages or more has been summarized, and one that is
\* shorter has been left alone
C29_Witness ==
    /\ history_log.op = "summarize" /\ history_log.summaries = 1
    /\ Len(chat_history) = 8 /\ IsSummary(chat_history[3])
    /\ chat_history[4] = response_entry
    /\ chat_history[8].role = "ai"

\* ------------------------------------------------------------------------
\* ProjectSpec: the processed and failed files of ProjectManager

\* the paths handed to add_processed_file and get_file_status: strings, and
\* Path objects
Str(text) == [type |-> "str", text |-> text]

PathOf(text) == [type |-> "Path", text |-> text]

FilePaths ==
    {Str(<<"a.csv">>), Str(<<".", "/", "a.csv">>), PathOf(<<".", "/", "a.csv">>),
     Str(<<"b.csv">>)}

\* str(file_path): a string is itself, a Path is written without a leading "./"
str(file_path) ==
    IF file_path.type = "Path" /\ StartsWith(file_path.text, <<".", "/">>)
    THEN Drop(file_path.text, 2)
    ELSE file_path.text

FileKeys == {str(file_path) : file_path \in FilePaths}

\* self.state.get(key, [])
StateGet(state, key) == IF state[key] = <<>> THEN <<>> ELSE state[key][1]

\* x in list
InList(list, x) == \E i \in 1..Len(list) : list[i] = x

\* list.remove(x) left out: the list stays as it is
remove_nothing(list, x) == list

\* list.remove(x): the first x is taken out
remove(list, x) ==
    SubSeq(list, 1, (CHOOSE i \in 1..Len(list) : list[i] = x /\ \A j \in 1..(i - 1) : list[j] # x) - 1)
        \o SubSeq(list, (CHOOSE i \in 1..Len(list) : list[i] = x /\ \A j \in 1..(i - 1) : list[j] # x) + 1,
                  Len(list))

\* "if file_path not in self.state.get(key, []):
\*      self.state.setdefault(key, []).append(file_path)"
Added(state, key, file_path) ==
    IF InList(StateGet(state, key), file_path) THEN state
    ELSE [state EXCEPT ![key] = <<Append(StateGet(state, key), file_path)>>]

\* "if file_path in other: other.remove(file_path)" on self.state.get(key, [])
Removed(state, key, file_path) ==
    IF InList(StateGet(state, key), file_path)
    THEN [state EXCEPT ![key] = <<remove(StateGet(state, key), file_path)>>]
    ELSE state

\* ProjectManager.add_processed_file on the lists of the state
add_processed_file(state, file_path, success) ==
    IF success
    THEN Removed(Added(state, "processed_files", str(file_path)), "failed_files",
                 str(file_path))
    ELSE Removed(Added(state, "failed_files", str(file_path)), "processed_files",
                 str(file_path))

\* ProjectManager.get_file_status
get_file_status(state, file_path) ==
    IF InList(StateGet(state, "processed_files"), str(file_path)) THEN "processed"
    ELSE IF InList(StateGet(state, "failed_files"), str(file_path)) THEN "failed"
    ELSE "pending"

\* the two lists of _get_default_state
DefaultLists == [processed_files |-> <<<<>>>>, failed_files |-> <<<<>>>>]

NoCalls == [key \in FileKeys |-> "pending"]

ProjectLog(op, key, success, before) ==
    [op |-> op, key |-> key, success |-> success, before |-> before]

\* ProjectManager(): state is {}
ProjectInit ==
    /\ project_state = NoLists /\ project_dirty = FALSE /\ project_disk = <<>>
    /\ project_calls = NoCalls /\ project_log = NoProjectLog
    /\ ParseOff /\ EngineOff /\ BatchOff /\ TableOff /\ WorkerOff /\ ContextOff
    /\ HistoryOff /\ UndoOff /\ CapOff /\ AutosaveOff /\ ServiceOff /\ ApiOff
    /\ SummaryOff

notProject == <<parseVars, engineVars, batchVars, tableVars, workerVars, contextVars,
                historyVars, undoVars, capVars, autosaveVars, serviceVars, apiVars,
                summaryVars>>

\* ProjectManager.create_new_project: the default state, saved
create_new_project ==
    /\ project_state' = DefaultLists
    /\ project_disk' = <<[state |-> DefaultLists, calls |-> NoCalls]>>
    /\ project_dirty' = FALSE
    /\ project_calls' = NoCalls
    /\ project_log' = ProjectLog("create_new_project", <<>>, FALSE, "pending")
    /\ UNCHANGED notProject

\* ProjectManager.add_processed_file
mark_file ==
    /\ \E file_path \in FilePaths, success \in BOOLEAN :
          /\ project_state' = add_processed_file(project_state, file_path, success)
          /\ project_calls' = [project_calls EXCEPT ![str(file_path)] =
                                  IF success THEN "processed" ELSE "failed"]
          /\ project_log' = ProjectLog("add_processed_file", str(file_path), success,
                                       project_calls[str(file_path)])
    /\ project_dirty' = TRUE
    /\ UNCHANGED <<notProject, project_disk>>

\* ProjectManager.save of a project that has a path
save_project ==
    /\ project_disk # <<>>
    /\ project_disk' = <<[state |-> project_state, calls |-> project_calls]>>
    /\ project_dirty' = FALSE
    /\ project_log' = ProjectLog("save", <<>>, FALSE, "pending")
    /\ UNCHANGED <<notProject, project_state, project_calls>>

\* the lists after self.state = self._get_default_state(); self.state.update(loaded)
Merged(loaded) ==
    [key \in {"processed_files", "failed_files"} |->
        IF loaded[key] = <<>> THEN DefaultLists[key] ELSE loaded[key]]

\* ProjectManager.load of the project file
load_project ==
    /\ project_disk # <<>>
    /\ project_state' = Merged(project_disk[1].state)
    /\ project_calls' = project_disk[1].calls
    /\ project_dirty' = FALSE
    /\ project_log' = ProjectLog("load", <<>>, FALSE, "pending")
    /\ UNCHANGED <<notProject, project_disk>>

ProjectNext ==
    \/ create_new_project
    \/ mark_file
    \/ save_project
    \/ load_project

ProjectSpec == ProjectInit /\ [][ProjectNext]_vars

NoDuplicates(list) == \A i, j \in 1..Len(list) : list[i] = list[j] => i = j

\* C30: no path is in both lists, no list holds a path twice, and
\* get_file_status(p) is "processed" or "failed" as the last
\* add_processed_file call for p said, "pending" when there was none
C30_FileStatus ==
    /\ \A key \in FileKeys :
          ~(/\ InList(StateGet(project_state, "processed_files"), key)
            /\ InList(StateGet(project_state, "failed_files"), key))
    /\ NoDuplicates(StateGet(project_state, "processed_files"))
    /\ NoDuplicates(StateGet(project_state, "failed_files"))
    /\ \A file_path \in FilePaths :
          get_file_status(project_state, file_path) = project_calls[str(file_path)]

\* a file that had failed has been processed, while another file is failed
C30_Witness ==
    /\ project_log.op = "add_processed_file" /\ project_log.success
    /\ project_log.before = "failed"
    /\ get_file_status(project_state, Str(project_log.key)) = "processed"
    /\ StateGet(project_state, "failed_files") # <<>>

====
